---- MODULE Spec2Model ----
(***************************************************************************)
(* Smart-Go-WebCrawler: the frontier store (database/postgres.go), the     *)
(* duplicate detector and the crawl orchestrator (crawler/smart.go).       *)
(***************************************************************************)
EXTENDS Integers, Sequences, FiniteSets, TLC

(***************************************************************************)
(* Bounds of the model.                                                    *)
(***************************************************************************)
MaxBatch == 2
MaxLimit == 2
NumCallers == 2
MaxCalls == 2
NumWorkers == 2
MaxRefills == 1
UrlQueueCap == 1
ResultsCap == 1

(***************************************************************************)
(* Values.                                                                 *)
(***************************************************************************)
StoreURLs == {"a", "b"}

\* float64 values: n/10 rounded to float64, or the float64 next below it
\* (below = TRUE), or the float64 next above it (above = TRUE)
Float64(n) == [tenths |-> n, below |-> FALSE, above |-> FALSE]

\* the float64 quotient of two lengths, kept as the two lengths
Quotient(num, den) == [num |-> num, den |-> den]

\* models.URLContext of a link; Importance is kept in hundredths
ZeroContext == [ContentType |-> "", Importance |-> 0, LinkDensity |-> Quotient(0, 1)]

\* models.URLPriority
URLPriority(url, priority, depth, parent, context) ==
    [URL |-> url, Priority |-> priority, Depth |-> depth, Parent |-> parent,
     Context |-> context]

\* the links of a small web: the seed page links to a and to b with priority
\* 30, and a and b link to each other with priority 80
StoreEntries ==
    {URLPriority("a", 30, 1, "seed", [ZeroContext EXCEPT !.Importance = 30]),
     URLPriority("b", 30, 1, "seed", [ZeroContext EXCEPT !.Importance = 30]),
     URLPriority("b", 80, 2, "a", [ZeroContext EXCEPT !.Importance = 80]),
     URLPriority("a", 80, 2, "b", [ZeroContext EXCEPT !.Importance = 80])}

SeqsUpTo(S, n) == UNION {[1..k -> S] : k \in 0..n}

StoreBatches == SeqsUpTo(StoreEntries, MaxBatch)

Max(x, y) == IF x >= y THEN x ELSE y
Min(x, y) == IF x <= y THEN x ELSE y

VARIABLES
    crawl_queue,    \* table crawl_queue: the rows, in insertion order
    lastCall,       \* the last call made to the store, its arguments and result
    enqueued,       \* history: per URL, the priorities committed by AddToQueue
    seenHashes,     \* DuplicateDetector.seenHashes: the keys mapped to true
    rw_readers,     \* DuplicateDetector.mutex: read locks held
    rw_writer,      \* DuplicateDetector.mutex: the caller in Lock..Unlock, or 0
    rw_writing,     \* DuplicateDetector.mutex: Lock has returned to rw_writer
    dd_pc,          \* per caller: where it is in IsDuplicate
    dd_hash,        \* per caller: the argument of its call
    dd_ret,         \* per caller: what its last call returned
    dd_calls,       \* per caller: calls started
    dd_held,        \* per caller: read locks it holds
    dd_false,       \* history: per hash, the calls that returned false
    dd_done,        \* history: the hashes of the calls that have returned
    dd_after,       \* history, per caller: its call started after a call
                    \* with the same hash had returned
    dd_alone,       \* history, per caller: no call with the same hash was in
                    \* progress at any moment of its call
    pages,          \* table pages: the rows, in insertion order
    pages_id_seq,   \* table pages: the last value of the sequence of id
    maxDepth,       \* Crawl: the argument maxDepth
    ctx_done,       \* Crawl: ctx has been cancelled
    urlQueue,       \* Crawl: the buffer of channel urlQueue
    urlQueueClosed, \* Crawl: close(urlQueue) was executed
    results,        \* Crawl: the buffer of channel results
    resultsClosed,  \* Crawl: close(results) was executed
    wg,             \* Crawl: the counter of the WaitGroup
    stats,          \* Crawl: the CrawlStats
    crawl_pc,       \* Crawl: where the orchestrator is
    nextURLs,       \* Crawl: what is left of the batch being pushed
    refills,        \* Crawl: batches fetched, at most MaxRefills
    returned,       \* Crawl: whether it has returned, and the values returned
    w_pc,           \* smartWorker, per worker: where it is
    w_url,          \* smartWorker, per worker: urlPriority
    w_result,       \* smartWorker, per worker: result
    w_check,        \* smartCrawlPage, per worker: crawled, err of IsURLCrawled
    w_resp,         \* smartCrawlPage, per worker: resp
    agg_pc,         \* processSmartResults: where it is
    agg_result,     \* processSmartResults: result
    agg_log,        \* history of processSmartResults: the results received, by
                    \* kind, and the store writes that failed
    panicked,       \* the run-time panic that ended the process, or ""
    lp_pc,          \* a call of calculateLinkPriority: where it is
    lp_doc,         \* what the analyzer finds in the document of the anchor
    lp_sel,         \* calculateLinkPriority: the anchor, its text, rel and class
    lp_context,     \* calculateLinkPriority: pageContext
    lp_priority     \* calculateLinkPriority: the priority returned

storeVars == <<crawl_queue, lastCall, enqueued>>
detectorVars == <<seenHashes, rw_readers, rw_writer, rw_writing, dd_pc, dd_hash,
                  dd_ret, dd_calls, dd_held, dd_false, dd_done, dd_after, dd_alone>>
ledgerVars == <<pages, pages_id_seq>>
runVars == <<maxDepth, ctx_done, urlQueue, urlQueueClosed, results,
             resultsClosed, wg, stats, crawl_pc, nextURLs, refills, returned,
             w_pc, w_url, w_result, w_check, w_resp, agg_pc, agg_result, agg_log,
             panicked>>
crawlVars == <<ledgerVars, runVars>>
priorityVars == <<lp_pc, lp_doc, lp_sel, lp_context, lp_priority>>
vars == <<storeVars, detectorVars, crawlVars, priorityVars>>
otherThanStore == <<detectorVars, crawlVars, priorityVars>>
otherThanDetector == <<storeVars, crawlVars, priorityVars>>
otherThanPriority == <<storeVars, detectorVars, crawlVars>>
otherThanLedger == <<storeVars, detectorVars, runVars, priorityVars>>

(***************************************************************************)
(* crawl_queue (postgres.go, createTables and the queue operations).       *)
(***************************************************************************)
\* a row as INSERT creates it: scheduled_at and status take their defaults
NewQueueRow(e, t) ==
    [url |-> e.URL, priority |-> e.Priority, depth |-> e.Depth,
     parent_url |-> e.Parent, scheduled_at |-> t, status |-> "pending"]

RowsOf(q, url) == {i \in 1..Len(q) : q[i].url = url}

\* mutant: SET priority = EXCLUDED.priority
ConflictUpdateOverwrite(row, e) ==
    [row EXCEPT !.priority = e.Priority]

\* mutant: the update also takes depth and parent_url from the new entry
ConflictUpdateAll(row, e) ==
    [row EXCEPT !.priority = Max(row.priority, e.Priority),
                !.depth = e.Depth, !.parent_url = e.Parent]

\* mutant: a rediscovered URL is made pending again
ConflictUpdateRequeue(row, e) ==
    [row EXCEPT !.priority = Max(row.priority, e.Priority), !.status = "pending"]

\* ON CONFLICT (url) DO UPDATE SET priority = GREATEST(old, new)
ConflictUpdate(row, e) ==
    [row EXCEPT !.priority = Max(row.priority, e.Priority)]

\* one stmt.Exec of the prepared INSERT ... ON CONFLICT
UpsertRow(q, e, t) ==
    IF RowsOf(q, e.URL) = {}
    THEN Append(q, NewQueueRow(e, t))
    ELSE [i \in 1..Len(q) |->
            IF q[i].url = e.URL THEN ConflictUpdate(q[i], e) ELSE q[i]]

\* the loop over urls inside one transaction; every row gets the
\* transaction's timestamp
RECURSIVE AddToQueueRows(_, _, _)
AddToQueueRows(q, urls, t) ==
    IF urls = <<>> THEN q
    ELSE AddToQueueRows(UpsertRow(q, Head(urls), t), Tail(urls), t)

\* mutant: ORDER BY priority DESC, scheduled_at DESC
SortsBeforeNewestFirst(r1, r2) ==
    \/ r1.priority > r2.priority
    \/ r1.priority = r2.priority /\ r1.scheduled_at > r2.scheduled_at

\* ORDER BY priority DESC, scheduled_at ASC: r1 sorts strictly before r2
SortsBefore(r1, r2) ==
    \/ r1.priority > r2.priority
    \/ r1.priority = r2.priority /\ r1.scheduled_at < r2.scheduled_at

\* WHERE status = 'pending'
Selected(q) == {i \in 1..Len(q) : q[i].status = "pending"}

\* s lists row numbers as the sort emits them: each one is a first row of
\* those not yet emitted (rows that compare equal come in any order)
RECURSIVE IsSortOutput(_, _, _)
IsSortOutput(q, s, rest) ==
    IF s = <<>> THEN TRUE
    ELSE /\ Head(s) \in rest
         /\ \A k \in rest : ~SortsBefore(q[k], q[Head(s)])
         /\ IsSortOutput(q, Tail(s), rest \ {Head(s)})

\* the row number lists the query can produce under LIMIT limit
QueryPlans(q, limit) ==
    LET n == Min(limit, Cardinality(Selected(q)))
    IN {s \in [1..n -> Selected(q)] : IsSortOutput(q, s, Selected(q))}

\* rows.Scan(&url.URL, &url.Priority, &url.Depth, &url.Parent)
ScanRow(row) ==
    URLPriority(row.url, row.priority, row.depth, row.parent_url, ZeroContext)

\* UPDATE crawl_queue SET status = 'completed' WHERE url = $1
MarkProcessedRows(q, url) ==
    [i \in 1..Len(q) |->
        IF q[i].url = url THEN [q[i] EXCEPT !.status = "completed"] ELSE q[i]]

\* CURRENT_TIMESTAMP of a transaction, the DEFAULT of scheduled_at: later than
\* the scheduled_at of every row committed before it (only the order of the
\* timestamps is read)
CurrentTimestamp(q) ==
    IF q = <<>> THEN 0
    ELSE 1 + (CHOOSE t \in {q[i].scheduled_at : i \in 1..Len(q)} :
                \A i \in 1..Len(q) : q[i].scheduled_at <= t)

\* urls: the URLs of the batch given to AddToQueue
NoCall == [op |-> "none", urls |-> {}, url |-> "", limit |-> 0, ret |-> <<>>,
           err |-> FALSE]

URLsOf(urls) == {urls[i].URL : i \in 1..Len(urls)}

RecordEnqueued(h, urls) ==
    [u \in DOMAIN h |->
        h[u] \cup {urls[i].Priority : i \in {j \in 1..Len(urls) : urls[j].URL = u}}]

InitStore ==
    /\ crawl_queue = <<>>
    /\ lastCall = NoCall
    /\ enqueued = [u \in StoreURLs |-> {}]

Callers == 1..NumCallers
Hashes == {"h1", "h2"}

\* NewDuplicateDetector, no call in progress
InitDetector ==
    /\ seenHashes = {}
    /\ rw_readers = 0
    /\ rw_writer = 0
    /\ rw_writing = FALSE
    /\ dd_pc = [p \in Callers |-> "idle"]
    /\ dd_hash = [p \in Callers |-> ""]
    /\ dd_ret = [p \in Callers |-> "none"]
    /\ dd_calls = [p \in Callers |-> 0]
    /\ dd_held = [p \in Callers |-> 0]
    /\ dd_false = [h \in Hashes |-> 0]
    /\ dd_done = {}
    /\ dd_after = [p \in Callers |-> FALSE]
    /\ dd_alone = [p \in Callers |-> FALSE]

Workers == 1..NumWorkers
MaxDepths == {-1, 0, 1}

\* models.CrawlStats; Duration is 0 until it is set
ZeroStats == [PagesProcessed |-> 0, PagesSkipped |-> 0, Errors |-> 0,
              Duration |-> 0, AvgLoadTime |-> 0, TotalSize |-> 0]

NotReturned == [done |-> FALSE, stats |-> ZeroStats, err |-> ""]
NoURL == URLPriority("", 0, 0, "", ZeroContext)
\* a nil *models.Page
NilPage ==
    [URL |-> "", StatusCode |-> 0, ContentType |-> <<>>, Size |-> 0, Depth |-> 0,
     ParentURL |-> "", Hash |-> "", Importance |-> Float64(0),
     ContentQuality |-> Float64(0), LinkDensity |-> Quotient(0, 1)]
\* no call of IsURLCrawled has returned
NoCheck == [called |-> FALSE, crawled |-> FALSE, err |-> FALSE]
\* a nil *http.Response
NoResponse == [StatusCode |-> 0, ContentType |-> <<>>]
NoResult == [Error |-> FALSE, Skipped |-> FALSE, Reason |-> "", Page |-> NilPage,
             Links |-> <<>>]

\* nothing received by processSmartResults so far
NoLog == [received |-> 0, errors |-> 0, skipped |-> 0, saveFailed |-> 0,
          enqueueFailed |-> 0]

\* Crawl, called with a maxDepth of depths, up to the point where the workers
\* and the results processor have been started
InitCrawl(depths) ==
    /\ pages = <<>>
    /\ pages_id_seq = 0
    /\ maxDepth \in depths
    /\ ctx_done = FALSE
    /\ urlQueue = <<>>
    /\ urlQueueClosed = FALSE
    /\ results = <<>>
    /\ resultsClosed = FALSE
    /\ wg = NumWorkers
    /\ stats = ZeroStats
    /\ crawl_pc = "push initialURL"
    /\ nextURLs = <<>>
    /\ refills = 0
    /\ returned = NotReturned
    /\ w_pc = [w \in Workers |-> "range"]
    /\ w_url = [w \in Workers |-> NoURL]
    /\ w_result = [w \in Workers |-> NoResult]
    /\ w_check = [w \in Workers |-> NoCheck]
    /\ w_resp = [w \in Workers |-> NoResponse]
    /\ agg_pc = "range"
    /\ agg_result = NoResult
    /\ agg_log = NoLog
    /\ panicked = ""

\* an attribute that the element does not have
NoAttr == [exists |-> FALSE, value |-> <<>>]
Attr(value) == [exists |-> TRUE, value |-> value]

\* a document in which the analyzer finds nothing: no title, article, nav or
\* share class, an empty body, no heading, paragraph, meta description or
\* anchor text
NoSignals ==
    [title |-> FALSE, article |-> FALSE, nav |-> FALSE, share |-> FALSE,
     text |-> 0, space |-> 0, headings |-> 0, paragraphs |-> 0,
     meta |-> FALSE, linkText |-> 0]

\* context := models.URLContext{}
ZeroURLContext ==
    [ContentQuality |-> Float64(0), LinkDensity |-> Quotient(0, 1),
     Importance |-> Float64(0)]

\* an anchor with no text and no attribute
NoSelection == [text |-> <<>>, rel |-> NoAttr, class |-> NoAttr]

\* no call of calculateLinkPriority is made
IdlePriority ==
    /\ lp_pc = "idle"
    /\ lp_doc = NoSignals
    /\ lp_sel = NoSelection
    /\ lp_context = ZeroURLContext
    /\ lp_priority = 0

Init == InitStore /\ InitDetector /\ InitCrawl(MaxDepths) /\ IdlePriority

\* the store and the detector on their own: the state before Crawl is called
InitUnits == InitStore /\ InitDetector /\ InitCrawl({0}) /\ IdlePriority

\* PostgresDB.AddToQueue: commits every upsert of the batch, or returns the
\* error of Begin/Prepare/Exec/Commit with the transaction rolled back
AddToQueue(urls) ==
    \E ok \in BOOLEAN :
        /\ crawl_queue' =
                IF ok
                THEN AddToQueueRows(crawl_queue, urls, CurrentTimestamp(crawl_queue))
                ELSE crawl_queue
        /\ enqueued' = IF ok THEN RecordEnqueued(enqueued, urls) ELSE enqueued
        /\ lastCall' = [NoCall EXCEPT !.op = "AddToQueue", !.urls = URLsOf(urls),
                                      !.err = ~ok]

\* PostgresDB.GetNextURLs
GetNextURLs(limit) ==
    /\ \/ \E s \in QueryPlans(crawl_queue, limit) :
            lastCall' = [NoCall EXCEPT !.op = "GetNextURLs", !.limit = limit,
                            !.ret = [i \in 1..Len(s) |-> ScanRow(crawl_queue[s[i]])]]
       \/ lastCall' = [NoCall EXCEPT !.op = "GetNextURLs", !.limit = limit,
                                     !.err = TRUE]
    /\ UNCHANGED <<crawl_queue, enqueued>>

\* PostgresDB.MarkURLProcessed
MarkURLProcessed(url) ==
    \E ok \in BOOLEAN :
        /\ crawl_queue' = IF ok THEN MarkProcessedRows(crawl_queue, url)
                          ELSE crawl_queue
        /\ lastCall' = [NoCall EXCEPT !.op = "MarkURLProcessed", !.url = url,
                                      !.err = ~ok]
        /\ UNCHANGED enqueued

NextStore ==
    \/ \E urls \in StoreBatches : AddToQueue(urls) /\ UNCHANGED otherThanStore
    \/ \E limit \in 0..MaxLimit : GetNextURLs(limit) /\ UNCHANGED otherThanStore
    \/ \E url \in StoreURLs : MarkURLProcessed(url) /\ UNCHANGED otherThanStore

SpecStore == InitUnits /\ [][NextStore]_vars

(***************************************************************************)
(* Claims about the frontier store.                                        *)
(***************************************************************************)
\* the batches AddToQueue can be given, by the URLs they hold
BatchesOver == [S \in SUBSET StoreURLs |-> {urls \in StoreBatches : URLsOf(urls) = S}]

SetMax(S) == CHOOSE x \in S : \A y \in S : y <= x

\* C7: after any sequence of AddToQueue calls, a URL that was enqueued has
\* exactly one row and its priority is the greatest priority ever enqueued
\* for it; a URL never enqueued has no row.
C7_PriorityIsMaxEnqueued ==
    \A u \in StoreURLs :
        IF enqueued[u] = {}
        THEN RowsOf(crawl_queue, u) = {}
        ELSE /\ Cardinality(RowsOf(crawl_queue, u)) = 1
             /\ \A i \in RowsOf(crawl_queue, u) :
                    crawl_queue[i].priority = SetMax(enqueued[u])

\* a was enqueued with 80 first (its row has the depth of that entry) and
\* with 30 by the call just made, and still has priority 80
C7_Witness ==
    /\ lastCall.op = "AddToQueue" /\ ~lastCall.err /\ "a" \in lastCall.urls
    /\ enqueued["a"] = {30, 80}
    /\ \E i \in RowsOf(crawl_queue, "a") :
            crawl_queue[i].depth = 2 /\ crawl_queue[i].priority = 80

\* C8: an AddToQueue call leaves every existing row in place with its url,
\* depth, parent_url, status and scheduled_at unchanged (only priority may
\* change), and making the same call again changes nothing.
C8_AddToQueueFrame ==
    [][lastCall'.op = "AddToQueue" =>
        /\ Len(crawl_queue') >= Len(crawl_queue)
        /\ \A i \in 1..Len(crawl_queue) :
                crawl_queue'[i] =
                    [crawl_queue[i] EXCEPT !.priority = crawl_queue'[i].priority]
        /\ \A urls \in BatchesOver[lastCall'.urls] :
                AddToQueue(urls) /\ ~lastCall'.err =>
                    AddToQueueRows(crawl_queue', urls, CurrentTimestamp(crawl_queue'))
                        = crawl_queue'
      ]_vars

\* the call just made enqueued b, found two links deep, onto the row that b
\* got when it was first found on the seed page
C8_Witness ==
    /\ lastCall.op = "AddToQueue" /\ ~lastCall.err /\ "b" \in lastCall.urls
    /\ enqueued["b"] = {30, 80}
    /\ \E i \in RowsOf(crawl_queue, "b") :
            /\ crawl_queue[i].depth = 1 /\ crawl_queue[i].parent_url = "seed"
            /\ crawl_queue[i].scheduled_at + 1 < CurrentTimestamp(crawl_queue)

\* C9: a completed row stays completed across every call, and the rows
\* GetNextURLs returns are never those of a completed URL.
C9_CompletedIsFinal ==
    [][/\ \A i \in 1..Len(crawl_queue) :
            crawl_queue[i].status = "completed" =>
                /\ i <= Len(crawl_queue')
                /\ crawl_queue'[i].url = crawl_queue[i].url
                /\ crawl_queue'[i].status = "completed"
       /\ lastCall'.op = "GetNextURLs" =>
            \A k \in 1..Len(lastCall'.ret) :
                \A i \in RowsOf(crawl_queue', lastCall'.ret[k].URL) :
                    crawl_queue'[i].status # "completed"
      ]_vars

\* a was completed at priority 30 and the call just made re-enqueued it
\* with priority 80
C9_Witness ==
    /\ lastCall.op = "AddToQueue" /\ ~lastCall.err /\ "a" \in lastCall.urls
    /\ \E i \in RowsOf(crawl_queue, "a") :
            /\ crawl_queue[i].status = "completed"
            /\ crawl_queue[i].priority = 80 /\ crawl_queue[i].depth = 1

\* the pending row a result entry was read from
RowOfResult(e) ==
    CHOOSE i \in 1..Len(crawl_queue) : crawl_queue[i].url = e.URL

\* C10: GetNextURLs(limit) returns at most limit entries, each a distinct
\* pending row, by priority descending and then scheduled_at ascending, and
\* no pending row left out has a higher priority than a returned one.
C10_NextBatchOrdered ==
    (lastCall.op = "GetNextURLs" /\ ~lastCall.err) =>
        LET ret == lastCall.ret
            n == Len(ret)
        IN /\ n <= lastCall.limit
           /\ \A k \in 1..n :
                \E i \in Selected(crawl_queue) : ScanRow(crawl_queue[i]) = ret[k]
           /\ \A j, k \in 1..n : j < k =>
                /\ ret[j].URL # ret[k].URL
                /\ ret[j].Priority >= ret[k].Priority
                /\ ret[j].Priority = ret[k].Priority =>
                        crawl_queue[RowOfResult(ret[j])].scheduled_at
                            <= crawl_queue[RowOfResult(ret[k])].scheduled_at
           /\ \A i \in Selected(crawl_queue) :
                (\A k \in 1..n : ret[k].URL # crawl_queue[i].url) =>
                    \A k \in 1..n : crawl_queue[i].priority <= ret[k].Priority

\* two pending rows of equal priority queued at different times, the limit
\* lets one through, and a completed row is passed over
C10_Witness ==
    /\ lastCall.op = "GetNextURLs" /\ ~lastCall.err
    /\ lastCall.limit = 1 /\ Len(lastCall.ret) = 1
    /\ \E i, j \in Selected(crawl_queue) :
            /\ crawl_queue[i].priority = crawl_queue[j].priority
            /\ crawl_queue[i].scheduled_at < crawl_queue[j].scheduled_at
            /\ lastCall.ret[1].URL = crawl_queue[i].url

(***************************************************************************)
(* DuplicateDetector (smart.go).  sync.RWMutex: RLock waits while a writer *)
(* is in Lock..Unlock; Lock first excludes other writers and new readers,  *)
(* then waits for the read locks held to be released.                      *)
(***************************************************************************)
\* mutex.RLock() returns
RLock(p) ==
    /\ rw_writer = 0
    /\ rw_readers' = rw_readers + 1
    /\ dd_held' = [dd_held EXCEPT ![p] = @ + 1]
    /\ UNCHANGED <<rw_writer, rw_writing>>

\* mutex.RUnlock()
RUnlock(p) ==
    /\ rw_readers' = rw_readers - 1
    /\ dd_held' = [dd_held EXCEPT ![p] = @ - 1]
    /\ UNCHANGED <<rw_writer, rw_writing>>

\* IsDuplicate(hash) is called
DDCall(p, hash) ==
    /\ dd_pc[p] = "idle"
    /\ dd_calls[p] < MaxCalls
    /\ dd_pc' = [dd_pc EXCEPT ![p] = "RLock"]
    /\ dd_hash' = [dd_hash EXCEPT ![p] = hash]
    /\ dd_calls' = [dd_calls EXCEPT ![p] = @ + 1]
    /\ dd_ret' = [dd_ret EXCEPT ![p] = "none"]
    /\ dd_after' = [dd_after EXCEPT ![p] = hash \in dd_done]
    /\ dd_alone' = [q \in Callers |->
            IF q = p
            THEN \A o \in Callers \ {p} : dd_pc[o] = "idle" \/ dd_hash[o] # hash
            ELSE dd_alone[q] /\ (dd_pc[q] = "idle" \/ dd_hash[q] # hash)]
    /\ UNCHANGED <<seenHashes, rw_readers, rw_writer, rw_writing, dd_held, dd_false>>
    /\ UNCHANGED dd_done

\* dd.mutex.RLock(); defer dd.mutex.RUnlock()
DDRLock(p) ==
    /\ dd_pc[p] = "RLock"
    /\ RLock(p)
    /\ dd_pc' = [dd_pc EXCEPT ![p] = "check"]
    /\ UNCHANGED <<seenHashes, dd_hash, dd_ret, dd_calls, dd_false>>
    /\ UNCHANGED <<dd_done, dd_after, dd_alone>>

\* if dd.seenHashes[hash] { return true }
DDCheck(p) ==
    /\ dd_pc[p] = "check"
    /\ dd_pc' = [dd_pc EXCEPT ![p] =
                    IF dd_hash[p] \in seenHashes THEN "return true" ELSE "RUnlock"]
    /\ UNCHANGED <<seenHashes, rw_readers, rw_writer, rw_writing, dd_hash,
                   dd_ret, dd_calls, dd_held, dd_false>>
    /\ UNCHANGED <<dd_done, dd_after, dd_alone>>

\* dd.mutex.RUnlock() before the upgrade
DDRUnlock(p) ==
    /\ dd_pc[p] = "RUnlock"
    /\ RUnlock(p)
    /\ dd_pc' = [dd_pc EXCEPT ![p] = "Lock"]
    /\ UNCHANGED <<seenHashes, dd_hash, dd_ret, dd_calls, dd_false>>
    /\ UNCHANGED <<dd_done, dd_after, dd_alone>>

\* dd.mutex.Lock() is entered: other writers and new readers are kept out
DDLockEnter(p) ==
    /\ dd_pc[p] = "Lock"
    /\ rw_writer = 0
    /\ rw_writer' = p
    /\ dd_pc' = [dd_pc EXCEPT ![p] = "Lock wait"]
    /\ UNCHANGED <<seenHashes, rw_readers, rw_writing, dd_hash, dd_ret,
                   dd_calls, dd_held, dd_false>>
    /\ UNCHANGED <<dd_done, dd_after, dd_alone>>

\* dd.mutex.Lock() returns: no read lock is held
DDLock(p) ==
    /\ dd_pc[p] = "Lock wait"
    /\ rw_readers = 0
    /\ rw_writing' = TRUE
    /\ dd_pc' = [dd_pc EXCEPT ![p] = "insert"]
    /\ UNCHANGED <<seenHashes, rw_readers, rw_writer, dd_hash, dd_ret,
                   dd_calls, dd_held, dd_false>>
    /\ UNCHANGED <<dd_done, dd_after, dd_alone>>

\* mutant: the hash is not recorded
DDInsertLeftOut(p) ==
    /\ dd_pc[p] = "insert"
    /\ dd_pc' = [dd_pc EXCEPT ![p] = "Unlock"]
    /\ UNCHANGED <<seenHashes, rw_readers, rw_writer, rw_writing, dd_hash, dd_ret,
                   dd_calls, dd_held, dd_false, dd_done, dd_after, dd_alone>>

\* dd.seenHashes[hash] = true
DDInsert(p) ==
    /\ dd_pc[p] = "insert"
    /\ seenHashes' = seenHashes \cup {dd_hash[p]}
    /\ dd_pc' = [dd_pc EXCEPT ![p] = "Unlock"]
    /\ UNCHANGED <<rw_readers, rw_writer, rw_writing, dd_hash, dd_ret,
                   dd_calls, dd_held, dd_false>>
    /\ UNCHANGED <<dd_done, dd_after, dd_alone>>

\* dd.mutex.Unlock()
DDUnlock(p) ==
    /\ dd_pc[p] = "Unlock"
    /\ rw_writer' = 0
    /\ rw_writing' = FALSE
    /\ dd_pc' = [dd_pc EXCEPT ![p] = "RLock again"]
    /\ UNCHANGED <<seenHashes, rw_readers, dd_hash, dd_ret, dd_calls, dd_held,
                   dd_false>>
    /\ UNCHANGED <<dd_done, dd_after, dd_alone>>

\* mutant: the read lock is not taken again before return false
DDRLockAgainLeftOut(p) ==
    /\ dd_pc[p] = "RLock again"
    /\ dd_pc' = [dd_pc EXCEPT ![p] = "return false"]
    /\ UNCHANGED <<seenHashes, rw_readers, rw_writer, rw_writing, dd_hash, dd_ret,
                   dd_calls, dd_held, dd_false, dd_done, dd_after, dd_alone>>

\* dd.mutex.RLock() after the insert
DDRLockAgain(p) ==
    /\ dd_pc[p] = "RLock again"
    /\ RLock(p)
    /\ dd_pc' = [dd_pc EXCEPT ![p] = "return false"]
    /\ UNCHANGED <<seenHashes, dd_hash, dd_ret, dd_calls, dd_false>>
    /\ UNCHANGED <<dd_done, dd_after, dd_alone>>

\* return true, and the deferred RUnlock
DDReturnTrue(p) ==
    /\ dd_pc[p] = "return true"
    /\ RUnlock(p)
    /\ dd_ret' = [dd_ret EXCEPT ![p] = "true"]
    /\ dd_done' = dd_done \cup {dd_hash[p]}
    /\ dd_pc' = [dd_pc EXCEPT ![p] = "idle"]
    /\ UNCHANGED <<seenHashes, dd_hash, dd_calls, dd_false>>
    /\ UNCHANGED <<dd_after, dd_alone>>

\* return false, and the deferred RUnlock
DDReturnFalse(p) ==
    /\ dd_pc[p] = "return false"
    /\ RUnlock(p)
    /\ dd_ret' = [dd_ret EXCEPT ![p] = "false"]
    /\ dd_done' = dd_done \cup {dd_hash[p]}
    /\ dd_false' = [dd_false EXCEPT ![dd_hash[p]] = @ + 1]
    /\ dd_pc' = [dd_pc EXCEPT ![p] = "idle"]
    /\ UNCHANGED <<seenHashes, dd_hash, dd_calls>>
    /\ UNCHANGED <<dd_after, dd_alone>>

\* the steps of the calls of IsDuplicate, interleaved
NextDetector ==
    \/ \E p \in Callers, hash \in Hashes : DDCall(p, hash) /\ UNCHANGED otherThanDetector
    \/ \E p \in Callers : DDRLock(p) /\ UNCHANGED otherThanDetector
    \/ \E p \in Callers : DDCheck(p) /\ UNCHANGED otherThanDetector
    \/ \E p \in Callers : DDRUnlock(p) /\ UNCHANGED otherThanDetector
    \/ \E p \in Callers : DDLockEnter(p) /\ UNCHANGED otherThanDetector
    \/ \E p \in Callers : DDLock(p) /\ UNCHANGED otherThanDetector
    \/ \E p \in Callers : DDInsert(p) /\ UNCHANGED otherThanDetector
    \/ \E p \in Callers : DDUnlock(p) /\ UNCHANGED otherThanDetector
    \/ \E p \in Callers : DDRLockAgain(p) /\ UNCHANGED otherThanDetector
    \/ \E p \in Callers : DDReturnTrue(p) /\ UNCHANGED otherThanDetector
    \/ \E p \in Callers : DDReturnFalse(p) /\ UNCHANGED otherThanDetector

SpecDetector == InitUnits /\ [][NextDetector]_vars

\* the steps of the call of IsDuplicate that caller p has made
DDSteps(p) ==
    \/ DDRLock(p) \/ DDCheck(p) \/ DDRUnlock(p) \/ DDLockEnter(p) \/ DDLock(p)
    \/ DDInsert(p) \/ DDUnlock(p) \/ DDRLockAgain(p) \/ DDReturnTrue(p)
    \/ DDReturnFalse(p)

\* the Go scheduler runs every goroutine that can take a step; nothing is
\* assumed of when, or whether, a caller makes its next call
FairSpecDetector ==
    /\ InitUnits /\ [][NextDetector]_vars
    /\ \A p \in Callers : WF_vars(DDSteps(p) /\ UNCHANGED otherThanDetector)

(***************************************************************************)
(* ContentAnalyzer.calculateImportance and Smart.calculateLinkPriority     *)
(* (smart.go).  A string is the sequence of its characters.                *)
(***************************************************************************)
UpperCase == <<"A", "B", "C", "D", "E", "F", "G", "H", "I", "J", "K", "L", "M",
              "N", "O", "P", "Q", "R", "S", "T", "U", "V", "W", "X", "Y", "Z">>
LowerCase == <<"a", "b", "c", "d", "e", "f", "g", "h", "i", "j", "k", "l", "m",
              "n", "o", "p", "q", "r", "s", "t", "u", "v", "w", "x", "y", "z">>

\* strings.ToLower
ToLower(s) ==
    [i \in 1..Len(s) |->
        IF \E k \in 1..Len(UpperCase) : UpperCase[k] = s[i]
        THEN LowerCase[CHOOSE k \in 1..Len(UpperCase) : UpperCase[k] = s[i]]
        ELSE s[i]]

\* strings.TrimSpace
RECURSIVE TrimSpace(_)
TrimSpace(s) ==
    IF s = <<>> THEN s
    ELSE IF Head(s) = " " THEN TrimSpace(Tail(s))
    ELSE IF s[Len(s)] = " " THEN TrimSpace(SubSeq(s, 1, Len(s) - 1))
    ELSE s

\* strings.Contains
Contains(s, substr) ==
    \E i \in 1..(Len(s) - Len(substr) + 1) : SubSeq(s, i, i + Len(substr) - 1) = substr

highPriorityKeywords ==
    {<<"a", "r", "t", "i", "c", "l", "e">>,
     <<"n", "e", "w", "s">>,
     <<"b", "l", "o", "g">>,
     <<"c", "o", "n", "t", "e", "n", "t">>,
     <<"p", "o", "s", "t">>,
     <<"s", "t", "o", "r", "y">>,
     <<"r", "e", "s", "e", "a", "r", "c", "h">>,
     <<"d", "o", "c", "u", "m", "e", "n", "t", "a", "t", "i", "o", "n">>}

lowPriorityKeywords ==
    {<<"l", "o", "g", "i", "n">>,
     <<"r", "e", "g", "i", "s", "t", "e", "r">>,
     <<"c", "o", "n", "t", "a", "c", "t">>,
     <<"a", "b", "o", "u", "t">>,
     <<"t", "e", "r", "m", "s">>,
     <<"p", "r", "i", "v", "a", "c", "y">>,
     <<"s", "i", "t", "e", "m", "a", "p">>}

\* x + d/10 in float64, for the sums calculateImportance and
\* calculateContentQuality make: 0.7 + 0.1 = 0.7999999999999999,
\* 0.7 + 0.2 = 0.8999999999999999, 0.2 + 0.1 = 0.30000000000000004, every
\* other sum is the float64 of the decimal sum, or next below it if x is
Float64Add(x, d) ==
    IF x = Float64(7)
    THEN [tenths |-> 7 + d, below |-> TRUE, above |-> FALSE]
    ELSE IF x = Float64(2) /\ d = 1
    THEN [tenths |-> 3, below |-> FALSE, above |-> TRUE]
    ELSE [tenths |-> x.tenths + d, below |-> x.below, above |-> x.above]

\* x > 1.0
Float64Above1(x) == x.tenths > 10

\* int(x * 20): 0.7999999999999999 * 20 = 15.999999999999998 is cut to 15,
\* 0.8999999999999999 * 20 = 18.0
IntTimes20(x) ==
    IF x.below /\ x.tenths = 8 THEN 15 ELSE 2 * x.tenths

\* what calculateImportance finds in a document: len(title) in (10, 70), an
\* article element, nav or .breadcrumb, a class with share or social
DocSignals ==
    {[NoSignals EXCEPT !.title = t, !.article = a, !.nav = n, !.share = s] :
        t \in BOOLEAN, a \in BOOLEAN, n \in BOOLEAN, s \in BOOLEAN}

\* the documents given to AnalyzeContent: text is the length of the trimmed
\* body text, space that of the white space around it, headings the number
\* of h1, h2 and h3, paragraphs that of p, meta the meta description,
\* linkText the length of the text of the anchors
AnalyzedDocuments ==
    {doc \in
        {[d EXCEPT !.text = t, !.space = sp, !.headings = h, !.paragraphs = p,
                   !.meta = m, !.linkText = l] :
            d \in {NoSignals, [NoSignals EXCEPT !.title = TRUE, !.article = TRUE,
                                                 !.nav = TRUE, !.share = TRUE]},
            t \in {0, 500, 501, 2000, 2500}, sp \in {0, 2}, h \in {0, 1},
            p \in {3, 5}, m \in BOOLEAN, l \in {0, 400, 501}} :
        doc.linkText <= doc.text}

\* ContentAnalyzer.calculateContentQuality
CalculateContentQuality(doc) ==
    LET s0 == Float64(0)
        s1 == IF doc.text > 500 THEN Float64Add(s0, 3) ELSE s0
        s2 == IF doc.text > 2000 THEN Float64Add(s1, 2) ELSE s1
        s3 == IF doc.headings > 0 THEN Float64Add(s2, 2) ELSE s2
        s4 == IF doc.paragraphs > 3 THEN Float64Add(s3, 2) ELSE s3
        s5 == IF doc.meta THEN Float64Add(s4, 1) ELSE s4
    IN  IF Float64Above1(s5) THEN Float64(10) ELSE s5

\* ContentAnalyzer.calculateLinkDensity
CalculateLinkDensity(doc) ==
    LET textLength == doc.text + doc.space
        linkTextLength == doc.linkText
    IN  IF textLength = 0
        THEN Quotient(0, 1)
        ELSE IF linkTextLength > textLength
        THEN Quotient(1, 1)
        ELSE Quotient(linkTextLength, textLength)

\* ContentAnalyzer.calculateImportance
CalculateImportance(doc) ==
    LET i0 == Float64(5)
        i1 == IF doc.title THEN Float64Add(i0, 1) ELSE i0
        i2 == IF doc.article THEN Float64Add(i1, 2) ELSE i1
        i3 == IF doc.nav THEN Float64Add(i2, 1) ELSE i2
        i4 == IF doc.share THEN Float64Add(i3, 1) ELSE i3
    IN  IF Float64Above1(i4) THEN Float64(10) ELSE i4

\* ContentAnalyzer.AnalyzeContent
AnalyzeContent(doc) ==
    [ContentQuality |-> CalculateContentQuality(doc),
     LinkDensity |-> CalculateLinkDensity(doc),
     Importance |-> CalculateImportance(doc)]

\* mutant: the upper bound is not enforced
EnsureAtLeast1(priority) ==
    IF priority < 1 THEN 1 ELSE priority

\* if priority < 1 { priority = 1 }; if priority > 100 { priority = 100 }
EnsureWithinBounds(priority) ==
    LET p1 == IF priority < 1 THEN 1 ELSE priority
    IN  IF p1 > 100 THEN 100 ELSE p1

\* calculateLinkPriority before the bounds are enforced
UnboundedLinkPriority(sel, pageContext) ==
    LET anchorText == TrimSpace(sel.text)
        p0 == 50
        p1 == IF \E keyword \in highPriorityKeywords :
                    Contains(ToLower(anchorText), keyword)
              THEN p0 + 20 ELSE p0
        p2 == IF \E keyword \in lowPriorityKeywords :
                    Contains(ToLower(anchorText), keyword)
              THEN p1 - 15 ELSE p1
        p3 == IF sel.rel.exists /\ Contains(sel.rel.value, <<"n", "o", "f", "o", "l", "l", "o", "w">>)
              THEN p2 - 30 ELSE p2
        p4 == IF sel.class.exists /\ (\/ Contains(sel.class.value, <<"n", "a", "v">>)
                                      \/ Contains(sel.class.value, <<"m", "e", "n", "u">>))
              THEN p3 - 10 ELSE p3
        p5 == IF sel.class.exists /\ (\/ Contains(sel.class.value, <<"c", "o", "n", "t", "e", "n", "t">>)
                                      \/ Contains(sel.class.value, <<"a", "r", "t", "i", "c", "l", "e">>))
              THEN p4 + 15 ELSE p4
    IN  p5 + IntTimes20(pageContext.Importance)

\* Smart.calculateLinkPriority
CalculateLinkPriority(sel, pageContext) ==
    EnsureWithinBounds(UnboundedLinkPriority(sel, pageContext))

\* the anchors given to calculateLinkPriority
AnchorTexts ==
    {<<"R", "e", "a", "d", " ", "o", "u", "r", " ", "A", "r", "t", "i", "c", "l", "e">>,
     <<"C", "o", "n", "t", "a", "c", "t", " ", "U", "s">>,
     <<"B", "l", "o", "g", " ", "N", "e", "w", "s">>,
     <<"A", "b", "o", "u", "t", " ", "t", "h", "i", "s", " ", "s", "t", "o", "r", "y">>,
     <<"N", "e", "x", "t">>,
     <<" ", "L", "O", "G", "I", "N", " ">>}
AnchorRels ==
    {NoAttr,
     Attr(<<"n", "o", "f", "o", "l", "l", "o", "w">>),
     Attr(<<"n", "o", "o", "p", "e", "n", "e", "r", " ", "n", "o", "f", "o", "l", "l", "o", "w">>),
     Attr(<<"N", "O", "F", "O", "L", "L", "O", "W">>)}
AnchorClasses ==
    {NoAttr,
     Attr(<<"n", "a", "v">>),
     Attr(<<"m", "a", "i", "n", "-", "m", "e", "n", "u">>),
     Attr(<<"c", "o", "n", "t", "e", "n", "t">>),
     Attr(<<"n", "a", "v", " ", "a", "r", "t", "i", "c", "l", "e">>),
     Attr(<<"b", "t", "n">>)}
Selections == [text : AnchorTexts, rel : AnchorRels, class : AnchorClasses]
\* a document and one of its anchors, before the document is analysed
InitPriority ==
    /\ lp_pc = "AnalyzeContent"
    /\ lp_doc \in DocSignals
    /\ lp_sel \in Selections
    /\ lp_context = ZeroURLContext
    /\ lp_priority = 0

\* context := s.contentAnalyzer.AnalyzeContent(doc, string(body))
LPAnalyzeContent ==
    /\ lp_pc = "AnalyzeContent"
    /\ lp_context' = AnalyzeContent(lp_doc)
    /\ lp_pc' = "calculateLinkPriority"
    /\ UNCHANGED <<lp_doc, lp_sel, lp_priority>>

\* priority := s.calculateLinkPriority(sel, pageContext)
LPCalculateLinkPriority ==
    /\ lp_pc = "calculateLinkPriority"
    /\ lp_priority' = CalculateLinkPriority(lp_sel, lp_context)
    /\ lp_pc' = "done"
    /\ UNCHANGED <<lp_doc, lp_sel, lp_context>>

NextPriority ==
    \/ LPAnalyzeContent /\ UNCHANGED otherThanPriority
    \/ LPCalculateLinkPriority /\ UNCHANGED otherThanPriority

\* a document before it is analysed
InitAnalyzer ==
    /\ lp_pc = "AnalyzeContent"
    /\ lp_doc \in AnalyzedDocuments
    /\ lp_sel = NoSelection
    /\ lp_context = ZeroURLContext
    /\ lp_priority = 0

NextAnalyzer == LPAnalyzeContent /\ UNCHANGED otherThanPriority

\* AnalyzeContent on its own, for every document
InitAnalyzerUnit == InitStore /\ InitDetector /\ InitCrawl({0}) /\ InitAnalyzer

SpecAnalyzer == InitAnalyzerUnit /\ [][NextAnalyzer]_vars

\* calculateLinkPriority on its own, for every document and anchor
InitPriorityUnit == InitStore /\ InitDetector /\ InitCrawl({0}) /\ InitPriority

SpecPriority == InitPriorityUnit /\ [][NextPriority]_vars

\* the entries given to AddToQueue so far that have the URL
EnqueuedFor(url) ==
    {e \in StoreEntries : e.URL = url /\ e.Priority \in enqueued[url]}

\* C27: the context an entry has when it is given to AddToQueue (importance
\* = priority / 100, the guess of the content type, the link density of the
\* parent) is the context of the entry GetNextURLs returns for the URL: the
\* context survives the round trip through crawl_queue.
C27_ContextSurvives ==
    (lastCall.op = "GetNextURLs" /\ ~lastCall.err) =>
        \A k \in 1..Len(lastCall.ret) :
            \E e \in EnqueuedFor(lastCall.ret[k].URL) :
                lastCall.ret[k].Context = e.Context

(***************************************************************************)
(* Claims about the priority of a link.                                    *)
(***************************************************************************)
\* C11: every priority calculateLinkPriority returns lies in [1,100], whatever
\* the anchor's text, rel and class and the importance of the page.
C11_PriorityWithinBounds ==
    lp_pc = "done" => lp_priority >= 1 /\ lp_priority <= 100

\* a priority was returned for an anchor whose signals add up to more than 100
C11_Witness ==
    /\ lp_pc = "done"
    /\ UnboundedLinkPriority(lp_sel, lp_context) > 100
    /\ lp_priority = 100

Indicator(b) == IF b THEN 1 ELSE 0
\* the anchor text has a keyword of the set
HasKeyword(sel, keywords) ==
    \E keyword \in keywords : Contains(ToLower(TrimSpace(sel.text)), keyword)
\* the attribute is there and has one of the words in it
AttrHas(attr, words) ==
    attr.exists /\ \E word \in words : Contains(attr.value, word)
\* round(importance * 20), importance being at most one float64 off n/10
RoundTimes20(x) == 2 * x.tenths

\* C12: the priority is 50, +20 if the anchor has a high-value keyword, -15
\* if it has a low-value keyword, -30 if rel has nofollow, -10 if class has
\* nav or menu, +15 if class has content or article, plus
\* round(importance * 20), the whole clamped to [1,100].
C12_PriorityFormula ==
    lp_pc = "done" =>
        LET sum == 50
                   + 20 * Indicator(HasKeyword(lp_sel, highPriorityKeywords))
                   - 15 * Indicator(HasKeyword(lp_sel, lowPriorityKeywords))
                   - 30 * Indicator(AttrHas(lp_sel.rel, {<<"n", "o", "f", "o", "l", "l", "o", "w">>}))
                   - 10 * Indicator(AttrHas(lp_sel.class, {<<"n", "a", "v">>, <<"m", "e", "n", "u">>}))
                   + 15 * Indicator(AttrHas(lp_sel.class,
                            {<<"c", "o", "n", "t", "e", "n", "t">>,
                             <<"a", "r", "t", "i", "c", "l", "e">>}))
                   + RoundTimes20(lp_context.Importance)
        IN  lp_priority = IF sum < 1 THEN 1 ELSE IF sum > 100 THEN 100 ELSE sum

(***************************************************************************)
(* isRelevantContent, guessContentType (crawler/smart.go).                 *)
(***************************************************************************)
relevantTypes ==
    {<<"t", "e", "x", "t", "/", "h", "t", "m", "l">>,
     <<"a", "p", "p", "l", "i", "c", "a", "t", "i", "o", "n", "/", "x", "h", "t", "m", "l", "+", "x", "m", "l">>,
     <<"t", "e", "x", "t", "/", "p", "l", "a", "i", "n">>}

\* Smart.isRelevantContent
IsRelevantContent(contentType) ==
    \E relevantType \in relevantTypes : Contains(contentType, relevantType)

\* Smart.guessContentType
GuessContentType(url) ==
    LET lower == ToLower(url)
    IN  IF Contains(lower, <<"/", "b", "l", "o", "g", "/">>)
           \/ Contains(lower, <<"/", "a", "r", "t", "i", "c", "l", "e", "/">>)
        THEN "article"
        ELSE IF Contains(lower, <<"/", "n", "e", "w", "s", "/">>)
        THEN "news"
        ELSE IF Contains(lower, <<"/", "d", "o", "c">>)
                \/ Contains(lower, <<"/", "h", "e", "l", "p", "/">>)
        THEN "documentation"
        ELSE "general"

(***************************************************************************)
(* Claims about the content analyzer.                                      *)
(***************************************************************************)
\* the float64 lies in [0,1]
Float64In01(x) ==
    /\ x.tenths >= 0 /\ x.tenths <= 10
    /\ ~(x.tenths = 0 /\ x.below)
    /\ ~(x.tenths = 10 /\ x.above)
\* the decimal sum of the bonuses, capped at 1.0, as a float64
CappedSum(tenths) == Float64(IF tenths > 10 THEN 10 ELSE tenths)

\* C25: the three scores of the analyzer lie in [0,1]; the quality is
\* min(1.0, 0.3 [text > 500] + 0.2 [text > 2000] + 0.2 [a heading]
\* + 0.2 [more than 3 paragraphs] + 0.1 [meta description]), so that a
\* document with 2500 characters, one h1, 5 paragraphs and a meta description
\* scores exactly 1.0; the importance is 0.5 plus its bonuses, capped at 1.0.
C25_ScoresAsDocumented ==
    lp_pc = "calculateLinkPriority" =>
        /\ Float64In01(lp_context.ContentQuality)
        /\ Float64In01(lp_context.Importance)
        /\ 0 <= lp_context.LinkDensity.num
        /\ lp_context.LinkDensity.num <= lp_context.LinkDensity.den
        /\ lp_context.ContentQuality =
               CappedSum(3 * Indicator(lp_doc.text > 500)
                         + 2 * Indicator(lp_doc.text > 2000)
                         + 2 * Indicator(lp_doc.headings > 0)
                         + 2 * Indicator(lp_doc.paragraphs > 3)
                         + Indicator(lp_doc.meta))
        /\ (lp_doc.text = 2500 /\ lp_doc.headings = 1 /\ lp_doc.paragraphs = 5
              /\ lp_doc.meta
                => lp_context.ContentQuality = Float64(10))
        /\ lp_context.Importance =
               CappedSum(5 + Indicator(lp_doc.title) + 2 * Indicator(lp_doc.article)
                         + Indicator(lp_doc.nav) + Indicator(lp_doc.share))

(***************************************************************************)
(* The crawled web: what a fetch of each URL finds.                        *)
(***************************************************************************)
StartURL == "seed"
CrawlURLs == {"seed", "a", "b"}

\* md5 of the body of each page
BodyHash == [u \in CrawlURLs |-> IF u = "seed" THEN "h0" ELSE IF u = "a" THEN "h1" ELSE "h2"]

\* resp.StatusCode: what the server of each page may answer with; a is the
\* page that may be missing
StatusCodes == [u \in CrawlURLs |-> IF u = "a" THEN {200, 404} ELSE {200}]

\* the URL of each page
SiteText ==
    <<"h", "t", "t", "p", "s", ":", "/", "/", "e", "x", "a", "m", "p", "l", "e",
      ".", "c", "o", "m">>
URLText == [u \in CrawlURLs |->
    IF u = "seed" THEN SiteText
    ELSE IF u = "a" THEN SiteText \o <<"/", "B", "l", "o", "g", "/", "a">>
    ELSE SiteText \o <<"/", "d", "o", "c", "s", "/", "b">>]

\* Content-Type headers
HTMLType ==
    <<"t", "e", "x", "t", "/", "h", "t", "m", "l", ";", " ", "c", "h", "a",
      "r", "s", "e", "t", "=", "u", "t", "f", "-", "8">>
PlainType == <<"t", "e", "x", "t", "/", "p", "l", "a", "i", "n">>
XHTMLType ==
    <<"a", "p", "p", "l", "i", "c", "a", "t", "i", "o", "n", "/", "x", "h",
      "t", "m", "l", "+", "x", "m", "l">>
PNGType == <<"i", "m", "a", "g", "e", "/", "p", "n", "g">>
UpperHTMLType == <<"T", "E", "X", "T", "/", "H", "T", "M", "L">>
JSONType ==
    <<"a", "p", "p", "l", "i", "c", "a", "t", "i", "o", "n", "/", "j", "s",
      "o", "n">>
NoType == <<>>

\* resp.Header.Get("Content-Type"): what the server of each page may answer
\* with
ContentTypes == [u \in CrawlURLs |->
    {IF u = "seed" THEN HTMLType ELSE IF u = "a" THEN XHTMLType ELSE PlainType,
     PNGType, UpperHTMLType, JSONType, NoType}]

\* the responses client.Do may return for each page
Responses == [u \in CrawlURLs |->
    [StatusCode : StatusCodes[u], ContentType : ContentTypes[u]]]

\* len(body) of each page
BodySize == [u \in CrawlURLs |-> IF u = "seed" THEN 3 ELSE IF u = "a" THEN 4 ELSE 2]

\* what the analyzer finds in each page
Documents == [u \in CrawlURLs |->
    [NoSignals EXCEPT !.text = 2500, !.headings = 1, !.paragraphs = 5,
                      !.meta = TRUE, !.linkText = 400]]

ArticleAnchor(href) ==
    [href |-> href,
     sel |-> [text |-> <<"R", "e", "a", "d", " ", "o", "u", "r", " ", "A", "r", "t", "i", "c", "l", "e">>,
              rel |-> NoAttr, class |-> NoAttr]]
NofollowAnchor(href) ==
    [href |-> href,
     sel |-> [text |-> <<"N", "e", "x", "t">>,
              rel |-> Attr(<<"n", "o", "f", "o", "l", "l", "o", "w">>), class |-> NoAttr]]

\* the a[href] of each page
Anchors == [u \in CrawlURLs |->
    IF u = "seed" THEN <<ArticleAnchor("a")>>
    ELSE IF u = "a" THEN <<ArticleAnchor("b"), NofollowAnchor("seed")>>
    ELSE <<NofollowAnchor("a")>>]

(***************************************************************************)
(* Table pages (postgres.go).                                              *)
(***************************************************************************)
PageRowsOf(t, url) == {i \in 1..Len(t) : t[i].url = url}

\* SELECT COUNT(*) FROM pages WHERE url = $1; count > 0
IsURLCrawled(t, url) == Cardinality(PageRowsOf(t, url)) > 0

\* the row INSERT INTO pages (...) VALUES (...) proposes, id being the
\* value drawn from the sequence of the SERIAL column
NewPageRow(page, id) ==
    [id |-> id, url |-> page.URL, status_code |-> page.StatusCode,
     content_type |-> page.ContentType, size |-> page.Size, depth |-> page.Depth,
     parent_url |-> page.ParentURL, hash |-> page.Hash,
     importance_score |-> page.Importance, content_quality |-> page.ContentQuality,
     link_density |-> page.LinkDensity]

\* mutant: the row of the URL is deleted and the new row is inserted
ReplacePageRow(row, excluded) == excluded

\* ON CONFLICT (url) DO UPDATE SET ...: id, url, depth and parent_url are not
\* in the SET list
UpdatePageRow(row, excluded) ==
    [row EXCEPT !.status_code = excluded.status_code,
                !.content_type = excluded.content_type,
                !.size = excluded.size, !.hash = excluded.hash,
                !.importance_score = excluded.importance_score,
                !.content_quality = excluded.content_quality,
                !.link_density = excluded.link_density]

\* INSERT INTO pages ... ON CONFLICT (url) DO UPDATE SET ...
SavePageRows(t, page, id) ==
    IF PageRowsOf(t, page.URL) = {}
    THEN Append(t, NewPageRow(page, id))
    ELSE [i \in 1..Len(t) |->
            IF t[i].url = page.URL
            THEN UpdatePageRow(t[i], NewPageRow(page, id))
            ELSE t[i]]

(***************************************************************************)
(* Smart.Crawl, smartWorker, smartCrawlPage, processSmartResults.          *)
(***************************************************************************)
chanVars == <<urlQueue, urlQueueClosed, results, resultsClosed>>
orchVars == <<crawl_pc, nextURLs, refills, returned>>
workerVars == <<w_pc, w_url, w_result, w_check, w_resp>>
aggVars == <<agg_pc, agg_result, agg_log>>
\* what no step of a crawl writes
crawlFixed == <<maxDepth, lastCall, enqueued, rw_readers, rw_writer, rw_writing,
                dd_pc, dd_hash, dd_ret, dd_calls, dd_held, dd_false, dd_done,
                dd_after, dd_alone, priorityVars>>

\* the process has not panicked
Running == panicked = ""

\* initialURL
InitialURL ==
    URLPriority(StartURL, 100, 0, "", [ZeroContext EXCEPT !.Importance = 100])

\* what AnalyzeContent makes of each page
PageContexts == [u \in CrawlURLs |-> AnalyzeContent(Documents[u])]

\* what guessContentType makes of the URL of each page
GuessedTypes == [u \in CrawlURLs |-> GuessContentType(URLText[u])]

\* the responses of each page that isRelevantContent lets through
RelevantResponses == [u \in CrawlURLs |->
    {resp \in Responses[u] : IsRelevantContent(resp.ContentType)}]

\* linkContext of an anchor of the page: the priority over 100, the guess of
\* the content type, the link density of the page
LinkContext(baseURL, href, priority) ==
    [ContentType |-> GuessedTypes[href], Importance |-> priority,
     LinkDensity |-> PageContexts[baseURL].LinkDensity]

\* the priority calculateLinkPriority gives each anchor of each page, pageContext
\* being what AnalyzeContent makes of the page
LinkPriorities == [u \in CrawlURLs |->
    [i \in 1..Len(Anchors[u]) |->
        CalculateLinkPriority(Anchors[u][i].sel, PageContexts[u])]]

\* mutant: a link gets the depth of the page it is on
ExtractSmartLinksSameDepth(baseURL, parentDepth) ==
    [i \in 1..Len(Anchors[baseURL]) |->
        URLPriority(Anchors[baseURL][i].href, LinkPriorities[baseURL][i],
                    parentDepth, baseURL,
                    LinkContext(baseURL, Anchors[baseURL][i].href,
                                LinkPriorities[baseURL][i]))]

\* extractSmartLinks: one entry per a[href] of the page
ExtractSmartLinks(baseURL, parentDepth) ==
    [i \in 1..Len(Anchors[baseURL]) |->
        URLPriority(Anchors[baseURL][i].href, LinkPriorities[baseURL][i],
                    parentDepth + 1, baseURL,
                    LinkContext(baseURL, Anchors[baseURL][i].href,
                                LinkPriorities[baseURL][i]))]

\* page := &models.Page{...}: Importance, ContentQuality and LinkDensity are
\* not among the fields set and keep their zero value
PageOf(u, resp) ==
    [NilPage EXCEPT
        !.URL = u.URL, !.StatusCode = resp.StatusCode,
        !.ContentType = resp.ContentType, !.Size = BodySize[u.URL],
        !.Depth = u.Depth, !.ParentURL = u.Parent, !.Hash = BodyHash[u.URL]]

ErrorResult == [NoResult EXCEPT !.Error = TRUE]
\* mutant: a skip is reported as an error as well
SkippedWithError(reason) ==
    [NoResult EXCEPT !.Skipped = TRUE, !.Reason = reason, !.Error = TRUE]
SkippedResult(reason) == [NoResult EXCEPT !.Skipped = TRUE, !.Reason = reason]
PageResult(u, resp) ==
    [NoResult EXCEPT
        !.Page = PageOf(u, resp),
        !.Links = ExtractSmartLinks(u.URL, u.Depth)]

\* if urlPriority.Depth <= maxDepth
WithinDepth(u, limit) == u.Depth <= limit

\* a send on channel ch of capacity cap can proceed
CanSend(ch, cap) == Len(ch) < cap

\* ctx.Done() is readable
Cancel ==
    /\ Running
    /\ ~ctx_done
    /\ ctx_done' = TRUE
    /\ UNCHANGED <<crawlFixed, crawl_queue, seenHashes, ledgerVars, chanVars, wg, stats,
                   orchVars, workerVars, aggVars, panicked>>

\* urlQueue <- initialURL
CrawlPushInitial ==
    /\ Running
    /\ crawl_pc = "push initialURL"
    /\ CanSend(urlQueue, UrlQueueCap)
    /\ urlQueue' = Append(urlQueue, InitialURL)
    /\ crawl_pc' = "AddToQueue"
    /\ UNCHANGED <<crawlFixed, crawl_queue, seenHashes, ledgerVars, ctx_done,
                   urlQueueClosed, results, resultsClosed, wg, stats, nextURLs,
                   refills, returned, workerVars, aggVars, panicked>>

\* s.db.AddToQueue([]models.URLPriority{initialURL}), its error dropped
CrawlAddInitial ==
    /\ Running
    /\ crawl_pc = "AddToQueue"
    /\ \E ok \in BOOLEAN :
        crawl_queue' =
            IF ok
            THEN AddToQueueRows(crawl_queue, <<InitialURL>>, CurrentTimestamp(crawl_queue))
            ELSE crawl_queue
    /\ crawl_pc' = "select"
    /\ UNCHANGED <<crawlFixed, seenHashes, ledgerVars, ctx_done, chanVars, wg, stats,
                   nextURLs, refills, returned, workerVars, aggVars, panicked>>

\* case <-ctx.Done(): in the loop's select, or in the select of a push
CrawlDone ==
    /\ Running
    /\ \/ crawl_pc = "select"
       \/ crawl_pc = "push" /\ WithinDepth(Head(nextURLs), maxDepth)
    /\ ctx_done
    /\ crawl_pc' = "close(urlQueue)"
    /\ nextURLs' = <<>>
    /\ UNCHANGED <<crawlFixed, crawl_queue, seenHashes, ledgerVars, ctx_done, chanVars,
                   wg, stats, refills, returned, workerVars, aggVars, panicked>>

\* mutant: an empty batch ends the crawl
CrawlTickEndsWhenDry ==
    /\ Running
    /\ crawl_pc = "select"
    /\ refills < MaxRefills
    /\ refills' = refills + 1
    /\ \/ nextURLs' = <<>>
       \/ \E s \in QueryPlans(crawl_queue, NumWorkers * 2) :
            nextURLs' = [i \in 1..Len(s) |-> ScanRow(crawl_queue[s[i]])]
    /\ crawl_pc' = IF nextURLs' = <<>> THEN "close(urlQueue)" ELSE "push"
    /\ UNCHANGED <<crawlFixed, crawl_queue, seenHashes, ledgerVars, ctx_done, chanVars,
                   wg, stats, returned, workerVars, aggVars, panicked>>

\* case <-ticker.C: GetNextURLs(s.workers * 2); on an error or an empty batch
\* the loop goes on, else the batch is pushed
CrawlGetNextURLs ==
    /\ Running
    /\ crawl_pc = "select"
    /\ \/ nextURLs' = <<>>
       \/ \E s \in QueryPlans(crawl_queue, NumWorkers * 2) :
            nextURLs' = [i \in 1..Len(s) |-> ScanRow(crawl_queue[s[i]])]
    /\ crawl_pc' = IF nextURLs' = <<>> THEN "select" ELSE "push"
    /\ UNCHANGED <<crawlFixed, crawl_queue, seenHashes, ledgerVars, ctx_done, chanVars,
                   wg, stats, returned, workerVars, aggVars, panicked>>

\* a tick of the ticker, of which a run has at most MaxRefills
CrawlTick ==
    /\ refills < MaxRefills
    /\ refills' = refills + 1
    /\ CrawlGetNextURLs

\* the loop over nextURLs: an entry beyond maxDepth is passed over
CrawlSkipDeep ==
    /\ Running
    /\ crawl_pc = "push"
    /\ ~WithinDepth(Head(nextURLs), maxDepth)
    /\ nextURLs' = Tail(nextURLs)
    /\ crawl_pc' = IF nextURLs' = <<>> THEN "select" ELSE "push"
    /\ UNCHANGED <<crawlFixed, crawl_queue, seenHashes, ledgerVars, ctx_done, chanVars,
                   wg, stats, refills, returned, workerVars, aggVars, panicked>>

\* mutant: the batch is pushed from its end
CrawlPushLast ==
    /\ Running
    /\ crawl_pc = "push"
    /\ WithinDepth(nextURLs[Len(nextURLs)], maxDepth)
    /\ CanSend(urlQueue, UrlQueueCap)
    /\ urlQueue' = Append(urlQueue, nextURLs[Len(nextURLs)])
    /\ nextURLs' = SubSeq(nextURLs, 1, Len(nextURLs) - 1)
    /\ crawl_pc' = IF nextURLs' = <<>> THEN "select" ELSE "push"
    /\ UNCHANGED <<crawlFixed, crawl_queue, seenHashes, ledgerVars, ctx_done,
                   urlQueueClosed, results, resultsClosed, wg, stats, refills,
                   returned, workerVars, aggVars, panicked>>

\* case urlQueue <- urlPriority
CrawlPush ==
    /\ Running
    /\ crawl_pc = "push"
    /\ WithinDepth(Head(nextURLs), maxDepth)
    /\ CanSend(urlQueue, UrlQueueCap)
    /\ urlQueue' = Append(urlQueue, Head(nextURLs))
    /\ nextURLs' = Tail(nextURLs)
    /\ crawl_pc' = IF nextURLs' = <<>> THEN "select" ELSE "push"
    /\ UNCHANGED <<crawlFixed, crawl_queue, seenHashes, ledgerVars, ctx_done,
                   urlQueueClosed, results, resultsClosed, wg, stats, refills,
                   returned, workerVars, aggVars, panicked>>

\* close(urlQueue)
CrawlCloseQueue ==
    /\ Running
    /\ crawl_pc = "close(urlQueue)"
    /\ urlQueueClosed' = TRUE
    /\ panicked' = IF urlQueueClosed THEN "close of closed channel" ELSE panicked
    /\ crawl_pc' = "wg.Wait"
    /\ UNCHANGED <<crawlFixed, crawl_queue, seenHashes, ledgerVars, ctx_done, urlQueue,
                   results, resultsClosed, wg, stats, nextURLs, refills, returned,
                   workerVars, aggVars>>

\* mutant: wg.Wait() is left out
CrawlWaitLeftOut ==
    /\ Running
    /\ crawl_pc = "wg.Wait"
    /\ crawl_pc' = "close(results)"
    /\ UNCHANGED <<crawlFixed, crawl_queue, seenHashes, ledgerVars, ctx_done, chanVars,
                   wg, stats, nextURLs, refills, returned, workerVars, aggVars,
                   panicked>>

\* mutant: close(results) is left out
CrawlWaitThenDuration ==
    /\ Running
    /\ crawl_pc = "wg.Wait"
    /\ wg = 0
    /\ crawl_pc' = "Duration"
    /\ UNCHANGED <<crawlFixed, crawl_queue, seenHashes, ledgerVars, ctx_done, chanVars,
                   wg, stats, nextURLs, refills, returned, workerVars, aggVars,
                   panicked>>

\* wg.Wait() returns
CrawlWait ==
    /\ Running
    /\ crawl_pc = "wg.Wait"
    /\ wg = 0
    /\ crawl_pc' = "close(results)"
    /\ UNCHANGED <<crawlFixed, crawl_queue, seenHashes, ledgerVars, ctx_done, chanVars,
                   wg, stats, nextURLs, refills, returned, workerVars, aggVars,
                   panicked>>

\* close(results)
CrawlCloseResults ==
    /\ Running
    /\ crawl_pc = "close(results)"
    /\ resultsClosed' = TRUE
    /\ panicked' = IF resultsClosed THEN "close of closed channel" ELSE panicked
    /\ crawl_pc' = "Duration"
    /\ UNCHANGED <<crawlFixed, crawl_queue, seenHashes, ledgerVars, ctx_done, urlQueue,
                   urlQueueClosed, results, wg, stats, nextURLs, refills, returned,
                   workerVars, aggVars>>

\* stats.Duration = time.Since(start)
CrawlDuration ==
    /\ Running
    /\ crawl_pc = "Duration"
    /\ stats' = [stats EXCEPT !.Duration = 1]
    /\ crawl_pc' = "return"
    /\ UNCHANGED <<crawlFixed, crawl_queue, seenHashes, ledgerVars, ctx_done, chanVars,
                   wg, nextURLs, refills, returned, workerVars, aggVars, panicked>>

\* return stats, nil
CrawlReturn ==
    /\ Running
    /\ crawl_pc = "return"
    /\ returned' = [done |-> TRUE, stats |-> stats, err |-> "nil"]
    /\ crawl_pc' = "returned"
    /\ UNCHANGED <<crawlFixed, crawl_queue, seenHashes, ledgerVars, ctx_done, chanVars,
                   wg, stats, nextURLs, refills, workerVars, aggVars, panicked>>

\* defer wg.Done() as the worker returns
WorkerReturns(w) ==
    /\ w_pc' = [w_pc EXCEPT ![w] = "returned"]
    /\ w_url' = [w_url EXCEPT ![w] = NoURL]
    /\ w_result' = [w_result EXCEPT ![w] = NoResult]
    /\ w_resp' = [w_resp EXCEPT ![w] = NoResponse]
    /\ wg' = wg - 1
    /\ UNCHANGED w_check

\* for urlPriority := range urlQueue, then if ctx.Err() != nil { return }
WorkerRange(w) ==
    /\ Running
    /\ w_pc[w] = "range"
    /\ urlQueue # <<>>
    /\ urlQueue' = Tail(urlQueue)
    /\ IF ctx_done
       THEN WorkerReturns(w)
       ELSE /\ w_url' = [w_url EXCEPT ![w] = Head(urlQueue)]
            /\ w_pc' = [w_pc EXCEPT ![w] = "limiter.Wait"]
            /\ UNCHANGED <<w_result, w_check, w_resp, wg>>
    /\ UNCHANGED <<crawlFixed, crawl_queue, seenHashes, ledgerVars, ctx_done,
                   urlQueueClosed, results, resultsClosed, stats, orchVars,
                   aggVars, panicked>>

\* the range loop ends: urlQueue is closed and empty
WorkerRangeEnds(w) ==
    /\ Running
    /\ w_pc[w] = "range"
    /\ urlQueue = <<>> /\ urlQueueClosed
    /\ WorkerReturns(w)
    /\ UNCHANGED <<crawlFixed, crawl_queue, seenHashes, ledgerVars, ctx_done, chanVars,
                   stats, orchVars, aggVars, panicked>>

\* mutant: the error of Wait is dropped and the page is fetched
WorkerLimiterWaitIgnored(w) ==
    /\ Running
    /\ w_pc[w] = "limiter.Wait"
    /\ w_pc' = [w_pc EXCEPT ![w] = "IsURLCrawled"]
    /\ UNCHANGED <<crawlFixed, crawl_queue, seenHashes, ledgerVars, ctx_done, chanVars,
                   wg, stats, orchVars, w_url, w_result, w_check, w_resp, aggVars, panicked>>

\* s.limiter.Wait(ctx): a token, or the error of a cancelled ctx and continue
WorkerLimiterWait(w) ==
    /\ Running
    /\ w_pc[w] = "limiter.Wait"
    /\ IF ctx_done
       THEN /\ w_pc' = [w_pc EXCEPT ![w] = "range"]
            /\ w_url' = [w_url EXCEPT ![w] = NoURL]
       ELSE /\ w_pc' = [w_pc EXCEPT ![w] = "IsURLCrawled"]
            /\ UNCHANGED w_url
    /\ UNCHANGED <<crawlFixed, crawl_queue, seenHashes, ledgerVars, ctx_done, chanVars,
                   wg, stats, orchVars, w_result, w_check, w_resp, aggVars, panicked>>

\* crawled, err := s.db.IsURLCrawled(url): the count, or the error of the
\* query with crawled = false
CheckOutcomes(t, url) ==
    {[crawled |-> IsURLCrawled(t, url), err |-> FALSE],
     [crawled |-> FALSE, err |-> TRUE]}

\* if err == nil && crawled
AlreadyCrawled(check) == ~check.err /\ check.crawled

\* return smartCrawlResult{...}: the locals of smartCrawlPage are gone
WorkerResult(w, result) ==
    /\ w_result' = [w_result EXCEPT ![w] = result]
    /\ w_resp' = [w_resp EXCEPT ![w] = NoResponse]
    /\ w_pc' = [w_pc EXCEPT ![w] = "send"]

\* mutant: the body is read and hashed whatever the content type
WorkerFilterLeftOut(w, resp) ==
    /\ w_resp' = [w_resp EXCEPT ![w] = resp]
    /\ w_pc' = [w_pc EXCEPT ![w] = "IsDuplicate"]
    /\ UNCHANGED w_result

\* if !s.isRelevantContent(contentType) { return ... }, then io.ReadAll
WorkerFilter(w, resp) ==
    IF resp \in RelevantResponses[w_url[w].URL]
    THEN \/ /\ w_resp' = [w_resp EXCEPT ![w] = resp]
            /\ w_pc' = [w_pc EXCEPT ![w] = "IsDuplicate"]
            /\ UNCHANGED w_result
         \/ WorkerResult(w, ErrorResult)
    ELSE WorkerResult(w, SkippedResult("irrelevant_content_type"))

\* smartCrawlPage up to the duplicate detection: already crawled, or the
\* request fails, or the content type is not relevant, or the body is read
WorkerFetch(w) ==
    /\ Running
    /\ w_pc[w] = "IsURLCrawled"
    /\ \E check \in CheckOutcomes(pages, w_url[w].URL) :
        IF AlreadyCrawled(check)
        THEN WorkerResult(w, SkippedResult("already_crawled"))
        ELSE \/ WorkerResult(w, ErrorResult)
             \/ /\ ~ctx_done
                /\ \E resp \in Responses[w_url[w].URL] : WorkerFilter(w, resp)
    /\ UNCHANGED <<crawlFixed, crawl_queue, seenHashes, ledgerVars, ctx_done, chanVars,
                   wg, stats, orchVars, w_url, w_check, aggVars, panicked>>

\* IsDuplicate(hash): the read of seenHashes under the read lock
WorkerIsDuplicate(w) ==
    /\ Running
    /\ w_pc[w] = "IsDuplicate"
    /\ IF BodyHash[w_url[w].URL] \in seenHashes
       THEN WorkerResult(w, SkippedResult("duplicate_content"))
       ELSE /\ w_pc' = [w_pc EXCEPT ![w] = "seenHashes[hash] = true"]
            /\ UNCHANGED <<w_result, w_resp>>
    /\ UNCHANGED <<crawlFixed, crawl_queue, seenHashes, ledgerVars, ctx_done, chanVars,
                   wg, stats, orchVars, w_url, w_check, aggVars, panicked>>

\* IsDuplicate(hash): the write under the write lock, return false, and the
\* rest of smartCrawlPage: the document is parsed, or the parse fails
WorkerRecordHash(w) ==
    /\ Running
    /\ w_pc[w] = "seenHashes[hash] = true"
    /\ seenHashes' = seenHashes \cup {BodyHash[w_url[w].URL]}
    /\ \E r \in {PageResult(w_url[w], w_resp[w]), ErrorResult} : WorkerResult(w, r)
    /\ UNCHANGED <<crawlFixed, crawl_queue, ledgerVars, ctx_done, chanVars, wg, stats,
                   orchVars, w_url, w_check, aggVars, panicked>>

\* case results <- result; a send on a closed channel panics
WorkerSend(w) ==
    /\ Running
    /\ w_pc[w] = "send"
    /\ IF resultsClosed
       THEN /\ panicked' = "send on closed channel"
            /\ UNCHANGED <<results, w_pc>>
       ELSE /\ CanSend(results, ResultsCap)
            /\ results' = Append(results, w_result[w])
            /\ w_pc' = [w_pc EXCEPT ![w] = "MarkURLProcessed"]
            /\ UNCHANGED panicked
    /\ UNCHANGED <<crawlFixed, crawl_queue, seenHashes, ledgerVars, ctx_done, urlQueue,
                   urlQueueClosed, resultsClosed, wg, stats, orchVars, w_url,
                   w_result, w_check, w_resp, aggVars>>

\* mutant: the send is a plain results <- result, with no ctx.Done() case
WorkerSendWithoutDone(w) ==
    /\ FALSE
    /\ w_pc[w] = "send"
    /\ UNCHANGED vars

\* mutant: the entry is marked processed as the worker leaves
WorkerSendDoneMarked(w) ==
    /\ Running
    /\ w_pc[w] = "send"
    /\ ctx_done
    /\ crawl_queue' = MarkProcessedRows(crawl_queue, w_url[w].URL)
    /\ WorkerReturns(w)
    /\ UNCHANGED <<crawlFixed, seenHashes, ledgerVars, ctx_done, chanVars,
                   stats, orchVars, aggVars, panicked>>

\* case <-ctx.Done(): return
WorkerSendDone(w) ==
    /\ Running
    /\ w_pc[w] = "send"
    /\ ctx_done
    /\ WorkerReturns(w)
    /\ UNCHANGED <<crawlFixed, crawl_queue, seenHashes, ledgerVars, ctx_done, chanVars,
                   stats, orchVars, aggVars, panicked>>

\* mutant: the worker returns after an entry that gave an error result
WorkerMarkProcessedOrReturn(w) ==
    /\ Running
    /\ w_pc[w] = "MarkURLProcessed"
    /\ \E ok \in BOOLEAN :
        crawl_queue' = IF ok THEN MarkProcessedRows(crawl_queue, w_url[w].URL)
                       ELSE crawl_queue
    /\ IF w_result[w].Error
       THEN WorkerReturns(w)
       ELSE /\ w_pc' = [w_pc EXCEPT ![w] = "range"]
            /\ w_url' = [w_url EXCEPT ![w] = NoURL]
            /\ w_result' = [w_result EXCEPT ![w] = NoResult]
            /\ UNCHANGED <<wg, w_check, w_resp>>
    /\ UNCHANGED <<crawlFixed, seenHashes, ledgerVars, ctx_done, chanVars, stats,
                   orchVars, aggVars, panicked>>

\* s.db.MarkURLProcessed(urlPriority.URL), its error dropped
WorkerMarkProcessed(w) ==
    /\ Running
    /\ w_pc[w] = "MarkURLProcessed"
    /\ \E ok \in BOOLEAN :
        crawl_queue' = IF ok THEN MarkProcessedRows(crawl_queue, w_url[w].URL)
                       ELSE crawl_queue
    /\ w_pc' = [w_pc EXCEPT ![w] = "range"]
    /\ w_url' = [w_url EXCEPT ![w] = NoURL]
    /\ w_result' = [w_result EXCEPT ![w] = NoResult]
    /\ UNCHANGED <<crawlFixed, seenHashes, ledgerVars, ctx_done, chanVars, wg, stats,
                   orchVars, w_check, w_resp, aggVars, panicked>>

\* for result := range results: an error or a skip is counted at once
AggRange ==
    /\ Running
    /\ agg_pc = "range"
    /\ results # <<>>
    /\ results' = Tail(results)
    /\ IF Head(results).Error
       THEN /\ stats' = [stats EXCEPT !.Errors = @ + 1]
            /\ agg_log' = [agg_log EXCEPT !.received = @ + 1, !.errors = @ + 1]
            /\ UNCHANGED <<agg_pc, agg_result>>
       ELSE IF Head(results).Skipped
       THEN /\ stats' = [stats EXCEPT !.PagesSkipped = @ + 1]
            /\ agg_log' = [agg_log EXCEPT !.received = @ + 1, !.skipped = @ + 1]
            /\ UNCHANGED <<agg_pc, agg_result>>
       ELSE /\ agg_result' = Head(results)
            /\ agg_pc' = "SavePage"
            /\ agg_log' = [agg_log EXCEPT !.received = @ + 1]
            /\ UNCHANGED stats
    /\ UNCHANGED <<crawlFixed, crawl_queue, seenHashes, ledgerVars, ctx_done, urlQueue,
                   urlQueueClosed, resultsClosed, wg, orchVars, workerVars, panicked>>

\* the range loop ends: results is closed and empty
AggRangeEnds ==
    /\ Running
    /\ agg_pc = "range"
    /\ results = <<>> /\ resultsClosed
    /\ agg_pc' = "returned"
    /\ UNCHANGED <<crawlFixed, crawl_queue, seenHashes, ledgerVars, ctx_done, chanVars,
                   wg, stats, orchVars, workerVars, agg_result, agg_log, panicked>>

\* mutant: the continue after stats.Errors++ is left out
AggSavePageGoesOn ==
    /\ Running
    /\ agg_pc = "SavePage"
    /\ \/ /\ pages' = SavePageRows(pages, agg_result.Page, pages_id_seq + 1)
          /\ pages_id_seq' = pages_id_seq + 1
          /\ UNCHANGED <<stats, agg_log>>
       \/ /\ stats' = [stats EXCEPT !.Errors = @ + 1]
          /\ agg_log' = [agg_log EXCEPT !.saveFailed = @ + 1]
          /\ UNCHANGED ledgerVars
    /\ agg_pc' = "AddToQueue"
    /\ UNCHANGED <<crawlFixed, crawl_queue, seenHashes, ctx_done, chanVars, wg,
                   orchVars, workerVars, agg_result, panicked>>

\* s.db.SavePage(result.Page); on an error stats.Errors++ and continue
AggSavePage ==
    /\ Running
    /\ agg_pc = "SavePage"
    /\ \/ /\ pages' = SavePageRows(pages, agg_result.Page, pages_id_seq + 1)
          /\ pages_id_seq' = pages_id_seq + 1
          /\ agg_pc' = "AddToQueue"
          /\ UNCHANGED <<stats, agg_result, agg_log>>
       \/ /\ stats' = [stats EXCEPT !.Errors = @ + 1]
          /\ agg_pc' = "range"
          /\ agg_result' = NoResult
          /\ agg_log' = [agg_log EXCEPT !.saveFailed = @ + 1]
          /\ UNCHANGED ledgerVars
    /\ UNCHANGED <<crawlFixed, crawl_queue, seenHashes, ctx_done, chanVars, wg,
                   orchVars, workerVars, panicked>>

\* if len(result.Links) > 0 { s.db.AddToQueue(result.Links) }, its error
\* dropped
AggAddToQueue ==
    /\ Running
    /\ agg_pc = "AddToQueue"
    /\ IF Len(agg_result.Links) > 0
       THEN \E ok \in BOOLEAN :
                IF ok
                THEN /\ crawl_queue' = AddToQueueRows(crawl_queue, agg_result.Links,
                                                      CurrentTimestamp(crawl_queue))
                     /\ UNCHANGED agg_log
                ELSE /\ agg_log' = [agg_log EXCEPT !.enqueueFailed = @ + 1]
                     /\ UNCHANGED crawl_queue
       ELSE UNCHANGED <<crawl_queue, agg_log>>
    /\ agg_pc' = "count"
    /\ UNCHANGED <<crawlFixed, seenHashes, ledgerVars, ctx_done, chanVars, wg, stats,
                   orchVars, workerVars, agg_result, panicked>>

\* mutant: the quotient is rounded up
AverageRoundedUp(totalSize, pagesProcessed) ==
    (totalSize + pagesProcessed - 1) \div pagesProcessed

\* time.Duration(stats.TotalSize/int64(stats.PagesProcessed)) *
\* time.Millisecond, in milliseconds
AverageOf(totalSize, pagesProcessed) == totalSize \div pagesProcessed

\* stats.PagesProcessed++, stats.TotalSize += result.Page.Size, and
\* AvgLoadTime if stats.PagesProcessed > 0
AggCount ==
    /\ Running
    /\ agg_pc = "count"
    /\ LET pagesProcessed == stats.PagesProcessed + 1
           totalSize == stats.TotalSize + agg_result.Page.Size
       IN  stats' = [stats EXCEPT
                !.PagesProcessed = pagesProcessed,
                !.TotalSize = totalSize,
                !.AvgLoadTime = IF pagesProcessed > 0
                                THEN AverageOf(totalSize, pagesProcessed)
                                ELSE @]
    /\ agg_pc' = "range"
    /\ agg_result' = NoResult
    /\ UNCHANGED <<crawlFixed, crawl_queue, seenHashes, ledgerVars, ctx_done, chanVars,
                   wg, orchVars, workerVars, agg_log, panicked>>

NextCrawl ==
    \/ Cancel
    \/ CrawlPushInitial
    \/ CrawlAddInitial
    \/ CrawlTick
    \/ CrawlSkipDeep
    \/ CrawlPush
    \/ CrawlDone
    \/ CrawlCloseQueue
    \/ CrawlWait
    \/ CrawlCloseResults
    \/ CrawlDuration
    \/ CrawlReturn
    \/ \E w \in Workers : WorkerRange(w)
    \/ \E w \in Workers : WorkerRangeEnds(w)
    \/ \E w \in Workers : WorkerLimiterWait(w)
    \/ \E w \in Workers : WorkerFetch(w)
    \/ \E w \in Workers : WorkerIsDuplicate(w)
    \/ \E w \in Workers : WorkerRecordHash(w)
    \/ \E w \in Workers : WorkerSend(w)
    \/ \E w \in Workers : WorkerSendDone(w)
    \/ \E w \in Workers : WorkerMarkProcessed(w)
    \/ AggRange
    \/ AggRangeEnds
    \/ AggSavePage
    \/ AggAddToQueue
    \/ AggCount

SpecCrawl == Init /\ [][NextCrawl]_vars

\* the steps of Crawl itself and of one worker
CrawlSteps ==
    \/ CrawlPushInitial \/ CrawlAddInitial \/ CrawlTick \/ CrawlSkipDeep
    \/ CrawlPush \/ CrawlDone \/ CrawlCloseQueue \/ CrawlWait
    \/ CrawlCloseResults \/ CrawlDuration \/ CrawlReturn
WorkerSteps(w) ==
    \/ WorkerRange(w) \/ WorkerRangeEnds(w) \/ WorkerLimiterWait(w)
    \/ WorkerFetch(w) \/ WorkerIsDuplicate(w) \/ WorkerRecordHash(w)
    \/ WorkerSend(w) \/ WorkerSendDone(w) \/ WorkerMarkProcessed(w)

\* the Go scheduler runs every goroutine that can take a step, and a select
\* with ctx.Done() readable takes that case sooner or later; nothing is
\* assumed of the results processor or of when ctx is cancelled
FairSpecCrawl ==
    /\ Init /\ [][NextCrawl]_vars
    /\ WF_vars(CrawlSteps)
    /\ SF_vars(CrawlDone)
    /\ \A w \in Workers : WF_vars(WorkerSteps(w))

(***************************************************************************)
(* smartCrawlPage and SavePage on their own.                               *)
(***************************************************************************)
MaxSaves == 3

\* the entries a worker may be given: the seed, and the links of each page
\* found at depth 0 or 1
PageEntries ==
    {InitialURL} \cup
    UNION {{ExtractSmartLinks(u, d)[i] : i \in 1..Len(Anchors[u])} :
            u \in CrawlURLs, d \in {0, 1}}

\* PostgresDB.SavePage: the statement is executed, or the error of the
\* connection is returned and nothing is changed
SavePage(page) ==
    \E ok \in BOOLEAN :
        IF ok
        THEN /\ pages' = SavePageRows(pages, page, pages_id_seq + 1)
             /\ pages_id_seq' = pages_id_seq + 1
        ELSE UNCHANGED ledgerVars

\* SavePage is called with a page a worker may have built
LedgerSavePage ==
    /\ pages_id_seq < MaxSaves
    /\ \E u \in PageEntries : \E resp \in RelevantResponses[u.URL] :
            SavePage(PageOf(u, resp))
    /\ UNCHANGED otherThanLedger

SpecLedger == InitUnits /\ [][LedgerSavePage]_vars

\* the worker that runs when smartCrawlPage is looked at on its own
PageWorker == CHOOSE w \in Workers : TRUE
pageFixed == <<crawlFixed, crawl_queue, ctx_done, chanVars, wg, stats, orchVars,
               aggVars, panicked>>

\* result := s.smartCrawlPage(ctx, urlPriority) is called
PageCall(w) ==
    /\ w_pc[w] = "range"
    /\ \E u \in PageEntries : w_url' = [w_url EXCEPT ![w] = u]
    /\ w_pc' = [w_pc EXCEPT ![w] = "IsURLCrawled"]
    /\ UNCHANGED <<pageFixed, seenHashes, ledgerVars, w_result, w_check, w_resp>>

\* crawled, err := s.db.IsURLCrawled(urlPriority.URL)
PageIsURLCrawled(w) ==
    /\ w_pc[w] = "IsURLCrawled"
    /\ \E check \in CheckOutcomes(pages, w_url[w].URL) :
            w_check' = [w_check EXCEPT ![w] = check]
    /\ w_pc' = [w_pc EXCEPT ![w] = "client.Do"]
    /\ UNCHANGED <<pageFixed, seenHashes, ledgerVars, w_url, w_result, w_resp>>

\* mutant: the request is made whatever IsURLCrawled returned
PageDoAnyway(w) ==
    /\ w_pc[w] = "client.Do"
    /\ \/ WorkerResult(w, ErrorResult)
       \/ /\ ~ctx_done
          /\ \E resp \in Responses[w_url[w].URL] :
                w_resp' = [w_resp EXCEPT ![w] = resp]
          /\ w_pc' = [w_pc EXCEPT ![w] = "isRelevantContent"]
          /\ UNCHANGED w_result
    /\ w_check' = [w_check EXCEPT ![w] = NoCheck]
    /\ UNCHANGED <<pageFixed, seenHashes, ledgerVars, w_url>>

\* if err == nil && crawled { return ... }, then the request: err is
\* assigned again, and resp is the response if it is nil
PageDo(w) ==
    /\ w_pc[w] = "client.Do"
    /\ IF AlreadyCrawled(w_check[w])
       THEN WorkerResult(w, SkippedResult("already_crawled"))
       ELSE \/ WorkerResult(w, ErrorResult)
            \/ /\ ~ctx_done
               /\ \E resp \in Responses[w_url[w].URL] :
                    w_resp' = [w_resp EXCEPT ![w] = resp]
               /\ w_pc' = [w_pc EXCEPT ![w] = "isRelevantContent"]
               /\ UNCHANGED w_result
    /\ w_check' = [w_check EXCEPT ![w] = NoCheck]
    /\ UNCHANGED <<pageFixed, seenHashes, ledgerVars, w_url>>

\* contentType := resp.Header.Get("Content-Type") and the test of it
PageFilter(w) ==
    /\ w_pc[w] = "isRelevantContent"
    /\ WorkerFilter(w, w_resp[w])
    /\ UNCHANGED <<pageFixed, seenHashes, ledgerVars, w_url, w_check>>

\* smartCrawlPage has returned: the page of the result, if it has one, is
\* saved as processSmartResults does, and the worker is free again
PageReturned(w) ==
    /\ w_pc[w] = "send"
    /\ IF w_result[w].Page # NilPage
       THEN SavePage(w_result[w].Page)
       ELSE UNCHANGED ledgerVars
    /\ w_pc' = [w_pc EXCEPT ![w] = "range"]
    /\ w_url' = [w_url EXCEPT ![w] = NoURL]
    /\ w_result' = [w_result EXCEPT ![w] = NoResult]
    /\ UNCHANGED <<pageFixed, seenHashes, w_check, w_resp>>

NextPage ==
    \/ Cancel
    \/ PageCall(PageWorker)
    \/ PageIsURLCrawled(PageWorker)
    \/ PageDo(PageWorker)
    \/ PageFilter(PageWorker)
    \/ WorkerIsDuplicate(PageWorker)
    \/ WorkerRecordHash(PageWorker)
    \/ PageReturned(PageWorker)

SpecPage == InitUnits /\ [][NextPage]_vars

(***************************************************************************)
(* The polling loop of Crawl on a frontier that an earlier run has left.   *)
(***************************************************************************)
\* URLs that an earlier run found beyond its maxDepth
DeepURLs == <<"d1", "d2", "d3", "d4", "d5", "d6", "d7", "d8">>

\* the links of a page of depth 1 as the earlier run enqueued them: never
\* sent to a worker, and so pending for ever
DeepLinks(n, priority) ==
    [i \in 1..n |-> URLPriority(DeepURLs[i], priority, 2, "a", ZeroContext)]

\* table crawl_queue as a run of Crawl may find it: s.workers * 2 rows of
\* depth 2, or one less, of the lowest or of the highest priority, and after
\* them the row of a link that no worker was given before the earlier run
\* was cancelled
Frontiers ==
    {AddToQueueRows(AddToQueueRows(<<>>, DeepLinks(n, priority), 0), urls, 1) :
        n \in {NumWorkers * 2 - 1, NumWorkers * 2}, priority \in {1, 100},
        urls \in SeqsUpTo(StoreEntries, 1)}

\* Crawl is called with maxDepth 1 on such a frontier
InitFrontier ==
    /\ crawl_queue \in Frontiers
    /\ lastCall = NoCall
    /\ enqueued = [u \in StoreURLs |-> {}]
    /\ InitDetector /\ InitCrawl({1}) /\ IdlePriority

\* case <-ticker.C, any number of times
CrawlPoll == CrawlGetNextURLs /\ UNCHANGED refills

\* one iteration of the loop of a worker as the loop of Crawl sees it: the
\* entry at the head of urlQueue is received, and at the end of the iteration
\* MarkURLProcessed is called for it
WorkerIteration ==
    /\ urlQueue # <<>>
    /\ urlQueue' = Tail(urlQueue)
    /\ MarkURLProcessed(Head(urlQueue).URL)
    /\ UNCHANGED <<detectorVars, ledgerVars, priorityVars, maxDepth, ctx_done,
                   urlQueueClosed, results, resultsClosed, wg, stats, orchVars,
                   workerVars, aggVars, panicked>>

\* a run in which ctx is never cancelled and no new link is found: the loop
\* of Crawl and the workers
NextFrontier ==
    \/ CrawlPushInitial
    \/ CrawlAddInitial
    \/ CrawlPoll
    \/ CrawlSkipDeep
    \/ CrawlPush
    \/ WorkerIteration

\* the Go scheduler runs every goroutine that can take a step, and the
\* ticker fires again and again; a query that can return rows, and an
\* update that can change a row, do so sooner or later
FairSpecFrontier ==
    /\ InitFrontier /\ [][NextFrontier]_vars
    /\ WF_vars(CrawlPushInitial \/ CrawlAddInitial \/ CrawlPoll \/ CrawlSkipDeep
                \/ CrawlPush)
    /\ SF_vars(CrawlPoll /\ nextURLs' # <<>>)
    /\ WF_vars(WorkerIteration)
    /\ SF_vars(WorkerIteration /\ crawl_queue' # crawl_queue)

(***************************************************************************)
(* Claims about a crawl.                                                   *)
(***************************************************************************)
\* the workers that hold url: taken from urlQueue and not yet marked processed
HeldBy(url) == {w \in Workers : w_url[w].URL = url}
\* the places of urlQueue that hold url
QueuedAt(url) == {i \in 1..Len(urlQueue) : urlQueue[i].URL = url}

\* C2: no URL is with two workers at the same time, and a URL that is on the
\* work channel or with a worker is not on the channel a second time.
C2_OneWorkerPerURL ==
    \A url \in CrawlURLs :
        Cardinality(HeldBy(url)) + Cardinality(QueuedAt(url)) <= 1

\* C3: whatever maxDepth is, no entry deeper than maxDepth is on the work
\* channel or with a worker.
C3_NothingBeyondMaxDepth ==
    /\ \A i \in 1..Len(urlQueue) : urlQueue[i].Depth <= maxDepth
    /\ \A w \in Workers : w_url[w] # NoURL => w_url[w].Depth <= maxDepth

\* Crawl has returned its stats with Duration set and a nil error
ReturnedStats ==
    returned.done /\ returned.err = "nil" /\ returned.stats.Duration > 0

\* C4: once ctx is cancelled, Crawl returns stats with Duration set and a
\* nil error, wherever the workers and the refill loop are at that moment.
C4_CancelLeadsToReturn == ctx_done ~> ReturnedStats

\* Crawl has returned while a result waits in the results channel and a page
\* is with the results processor
C4_Witness ==
    ReturnedStats /\ ctx_done /\ results # <<>> /\ agg_pc = "SavePage"

\* C5: results is closed only once urlQueue is closed and every worker has
\* returned, Duration is set only once results is closed, and Crawl returns
\* only once Duration is set.
C5_ShutdownOrder ==
    /\ resultsClosed => urlQueueClosed /\ \A w \in Workers : w_pc[w] = "returned"
    /\ crawl_pc \in {"close(results)", "Duration", "return", "returned"} =>
            urlQueueClosed /\ wg = 0 /\ \A w \in Workers : w_pc[w] = "returned"
    /\ stats.Duration # 0 => resultsClosed
    /\ returned.done => stats.Duration # 0 /\ returned.stats.Duration # 0

\* Crawl has returned after a worker left through the ctx.Done() case of its
\* send, its result never delivered
C5_Witness ==
    /\ returned.done /\ ctx_done
    /\ stats.Errors + stats.PagesSkipped + stats.PagesProcessed = 0
    /\ results = <<>> /\ agg_pc = "returned"
    /\ seenHashes # {}

\* C6: no send on a closed channel and no second close of a channel.
C6_NoSendOnClosed ==
    /\ panicked = ""
    /\ \A w \in Workers : w_pc[w] = "send" => ~resultsClosed

\* results is closed with a result still in it, sent before the close
C6_Witness ==
    resultsClosed /\ urlQueueClosed /\ results # <<>>

\* the links of result r are one deeper than the entry u and have its URL as
\* parent
LinksOneDeeper(r, u) ==
    \A i \in 1..Len(r.Links) :
        r.Links[i].Depth = u.Depth + 1 /\ r.Links[i].Parent = u.URL

\* the rows of table q that table old did not have
NewRows(old, q) == {i \in 1..Len(q) : RowsOf(old, q[i].url) = {}}

\* C13: the links found on a page dispatched at depth d are created, and
\* enqueued, with depth d+1 and the page's URL as parent; the seed is the
\* only entry created at depth 0.
C13_DepthPropagation ==
    /\ [](\A i \in 1..Len(crawl_queue) :
            crawl_queue[i].depth = 0 => crawl_queue[i].url = StartURL)
    /\ [][/\ \A w \in Workers :
                w_result'[w] # w_result[w] =>
                    /\ LinksOneDeeper(w_result'[w], w_url[w])
                    /\ w_result'[w].Page # NilPage =>
                            /\ w_result'[w].Page.Depth = w_url[w].Depth
                            /\ w_result'[w].Page.URL = w_url[w].URL
           /\ \A i \in NewRows(crawl_queue, crawl_queue') :
                IF agg_pc = "AddToQueue"
                THEN /\ crawl_queue'[i].depth = agg_result.Page.Depth + 1
                     /\ crawl_queue'[i].parent_url = agg_result.Page.URL
                ELSE /\ crawl_queue'[i].depth = 0
                     /\ crawl_queue'[i].url = StartURL]_vars

\* link b, found on page a that was dispatched at depth 1, is in the queue
\* at depth 2 with parent a
C13_Witness ==
    \E i \in 1..Len(crawl_queue) :
        /\ crawl_queue[i].url = "b"
        /\ crawl_queue[i].depth = 2
        /\ crawl_queue[i].parent_url = "a"

\* processSmartResults is between two results
BetweenResults == agg_pc \in {"range", "returned"}

\* C15: one counter is updated per result received: Errors for an error
\* result and for a failed SavePage, PagesSkipped for a skipped result,
\* else PagesProcessed, with TotalSize raised by the size of the page; so
\* between two results the three counters add up to the results received,
\* and while a page is being handled, to one less.
C15_OneCountPerResult ==
    /\ [](/\ stats.Errors + stats.PagesSkipped + stats.PagesProcessed
                = agg_log.received - (IF BetweenResults THEN 0 ELSE 1)
          /\ stats.Errors = agg_log.errors + agg_log.saveFailed
          /\ stats.PagesSkipped = agg_log.skipped)
    /\ [][stats'.PagesProcessed # stats.PagesProcessed =>
            /\ stats'.PagesProcessed = stats.PagesProcessed + 1
            /\ stats'.TotalSize = stats.TotalSize + agg_result.Page.Size
            /\ stats'.Errors = stats.Errors
            /\ stats'.PagesSkipped = stats.PagesSkipped
            /\ \E i \in 1..Len(pages) : pages[i].url = agg_result.Page.URL]_vars

\* a skipped result, a page that could not be saved and a page that was saved
\* have all been counted
C15_Witness ==
    /\ BetweenResults
    /\ agg_log.received = 3
    /\ agg_log.skipped > 0 /\ agg_log.saveFailed > 0 /\ stats.PagesProcessed > 0
    /\ stats.TotalSize > 0

\* C16: every store write that fails in processSmartResults, SavePage or
\* AddToQueue, is counted in Errors.
C16_StoreFailuresCounted ==
    BetweenResults =>
        stats.Errors = agg_log.errors + agg_log.saveFailed + agg_log.enqueueFailed

\* a status code of the 2xx class
Is2xx(status) == status >= 200 /\ status <= 299

\* C17: a fetch that fails, a response with a non-2xx status included, gives
\* an error result, which is counted in Errors and not in PagesProcessed, and
\* no page is saved for it.
C17_FetchFailuresAreErrors ==
    /\ \A w \in Workers :
            w_result[w].Page # NilPage => Is2xx(w_result[w].Page.StatusCode)
    /\ \A i \in 1..Len(pages) : Is2xx(pages[i].status_code)
    /\ stats.Errors >= agg_log.errors
    /\ stats.PagesProcessed <= agg_log.received - agg_log.errors

\* the URLs of table crawl_queue
QueueURLs(q) == {q[i].url : i \in 1..Len(q)}

\* C18: a skipped entry adds one to PagesSkipped and nothing to Errors or
\* PagesProcessed, and neither the worker that skipped it nor
\* processSmartResults saves a page or enqueues a link for it: table pages
\* and the URLs of crawl_queue stay as they are.
C18_SkipChangesNothing ==
    /\ [](\A i \in 1..Len(results) :
            results[i].Skipped => results[i].Page = NilPage /\ results[i].Links = <<>>)
    /\ [][/\ (results # <<>> /\ results' = Tail(results) /\ Head(results).Skipped) =>
                /\ stats'.PagesSkipped = stats.PagesSkipped + 1
                /\ stats'.Errors = stats.Errors
                /\ stats'.PagesProcessed = stats.PagesProcessed
                /\ pages' = pages
                /\ crawl_queue' = crawl_queue
           /\ \A w \in Workers :
                (w_result[w].Skipped /\ w_pc'[w] # w_pc[w]) =>
                    /\ pages' = pages
                    /\ QueueURLs(crawl_queue') = QueueURLs(crawl_queue)]_vars

\* two entries were skipped, one page is saved and no error is counted
C18_Witness ==
    /\ stats.PagesSkipped = 2 /\ agg_log.skipped = 2
    /\ stats.Errors = 0
    /\ Len(pages) = 1
    /\ \E w \in Workers : w_result[w].Skipped /\ w_pc[w] = "MarkURLProcessed"

\* worker w takes a step
StepOf(w) == w_pc'[w] # w_pc[w]

\* C19: a worker returns only when ctx is cancelled or urlQueue is closed and
\* empty; whatever the result of an entry (error, skip or page) and whether
\* or not MarkURLProcessed fails, the worker goes back to the range over
\* urlQueue.
C19_WorkerGoesOn ==
    [][\A w \in Workers :
        /\ (StepOf(w) /\ w_pc'[w] = "returned") =>
                ctx_done \/ (urlQueueClosed /\ urlQueue = <<>>)
        /\ (StepOf(w) /\ w_pc[w] = "send" /\ ~ctx_done) =>
                w_pc'[w] = "MarkURLProcessed" /\ results' = Append(results, w_result[w])
        /\ (StepOf(w) /\ w_pc[w] = "MarkURLProcessed") => w_pc'[w] = "range"
        /\ (StepOf(w) /\ w_pc[w] = "range" /\ ~ctx_done /\ urlQueue # <<>>) =>
                w_pc'[w] = "limiter.Wait" /\ w_url'[w] = Head(urlQueue)]_vars

\* an entry gave an error result, which is counted; every worker, the one
\* that handled it included, is at the range again, and the next entry is
\* in urlQueue
C19_Witness ==
    /\ ~ctx_done /\ ~urlQueueClosed /\ urlQueue # <<>>
    /\ agg_log.errors > 0
    /\ \A w \in Workers : w_pc[w] = "range"

\* C20: a worker starts a fetch only from a Wait that succeeded; when Wait
\* fails because ctx is cancelled, the worker goes back to the range with no
\* fetch and no result, and the stats and the tables stay as they are.
C20_NoFetchWithoutToken ==
    [][\A w \in Workers :
        /\ (StepOf(w) /\ w_pc'[w] = "IsURLCrawled") =>
                w_pc[w] = "limiter.Wait" /\ ~ctx_done
        /\ (StepOf(w) /\ w_pc[w] = "limiter.Wait" /\ ctx_done) =>
                /\ w_pc'[w] = "range"
                /\ w_result'[w] = NoResult
                /\ results' = results
                /\ stats' = stats
                /\ pages' = pages /\ crawl_queue' = crawl_queue]_vars

\* the seed was taken from urlQueue, ctx is cancelled, and both workers are
\* at the range with no result made, sent or counted: the one that took the
\* seed came back from a Wait that failed
C20_Witness ==
    /\ ctx_done
    /\ crawl_pc \notin {"push initialURL", "push"} /\ refills = 0
    /\ urlQueue = <<>> /\ results = <<>>
    /\ agg_log.received = 0 /\ agg_pc = "range"
    /\ \A w \in Workers : w_pc[w] = "range"

(***************************************************************************)
(* Claims about smartCrawlPage and the table pages.                        *)
(***************************************************************************)
\* the skip of a worker for a URL that has a row in pages
SkippedAsCrawled(w) ==
    /\ w_result'[w] = SkippedResult("already_crawled")
    /\ w_resp'[w] = NoResponse
    /\ w_pc'[w] = "send"

C22_OneRecordPerURL ==
    /\ [](\A url \in CrawlURLs : Cardinality(PageRowsOf(pages, url)) <= 1)
    /\ [](\A i, j \in 1..Len(pages) : pages[i].id = pages[j].id => i = j)
    /\ [][/\ Len(pages') >= Len(pages)
          /\ \A i \in 1..Len(pages) :
                pages'[i].id = pages[i].id /\ pages'[i].url = pages[i].url
          /\ \A i \in (Len(pages) + 1)..Len(pages') :
                ~IsURLCrawled(pages, pages'[i].url)]_vars

\* two pages were saved, one of them twice
C22_Witness ==
    /\ Len(pages) = 2
    /\ pages_id_seq = 3
    /\ \E i \in 1..Len(pages) : pages[i].id = 1 /\ pages[i].status_code = 404

\* the worker is between the content type filter and the end of IsDuplicate
Fingerprinting(w) == w_pc[w] \in {"IsDuplicate", "seenHashes[hash] = true"}

\* C23: the content type filter runs before the fingerprint: a response whose
\* Content-Type has none of text/html, application/xhtml+xml and text/plain in
\* it (image/png for one) is skipped with no fingerprint computed or added to
\* seenHashes, and text/html; charset=utf-8 passes the filter.
C23_FilterBeforeFingerprint ==
    /\ [](\A w \in Workers :
            Fingerprinting(w) => IsRelevantContent(w_resp[w].ContentType))
    /\ [][\A w \in Workers :
            (w_pc[w] = "isRelevantContent" /\ StepOf(w)) =>
                IF \E t \in relevantTypes : Contains(w_resp[w].ContentType, t)
                THEN w_result'[w].Reason # "irrelevant_content_type"
                ELSE /\ w_result'[w] = SkippedResult("irrelevant_content_type")
                     /\ w_pc'[w] = "send"
                     /\ seenHashes' = seenHashes]_vars
    /\ [][seenHashes' # seenHashes =>
            \E w \in Workers :
                /\ w_pc[w] = "seenHashes[hash] = true"
                /\ IsRelevantContent(w_resp[w].ContentType)]_vars
    /\ [][\A w \in Workers :
            (w_pc[w] = "isRelevantContent" /\ StepOf(w)) =>
                /\ w_resp[w].ContentType = PNGType =>
                        w_result'[w] = SkippedResult("irrelevant_content_type")
                /\ w_resp[w].ContentType = HTMLType =>
                        ~w_result'[w].Skipped]_vars

\* an image/png response was skipped and the hash of the page is not in
\* seenHashes
C23_Witness ==
    \E w \in Workers :
        /\ w_pc[w] = "send"
        /\ w_result[w] = SkippedResult("irrelevant_content_type")
        /\ BodyHash[w_url[w].URL] \notin seenHashes
        /\ seenHashes # {}

\* a step of processSmartResults
AggStep ==
    agg_pc' # agg_pc \/ agg_result' # agg_result \/ agg_log' # agg_log

\* processSmartResults has no write of stats ahead of it: it has returned, or
\* it waits on results, which is closed and empty
AggHasDone ==
    \/ agg_pc = "returned"
    \/ agg_pc = "range" /\ results = <<>> /\ resultsClosed

\* C24: stats has a single writer: from the start of Crawl to its return, a
\* step that writes a field of stats is a step of processSmartResults; a
\* write by another task (Crawl setting Duration, a worker) is made only when
\* processSmartResults has no write left to make, and so is not concurrent
\* with one.
C24_SingleWriter ==
    [][stats' # stats => AggStep \/ AggHasDone]_vars

C28_ScoresPersisted ==
    \A i \in 1..Len(pages) :
        /\ pages[i].importance_score = PageContexts[pages[i].url].Importance
        /\ pages[i].content_quality = PageContexts[pages[i].url].ContentQuality
        /\ pages[i].link_density = PageContexts[pages[i].url].LinkDensity

C30_AverageOfTotals ==
    /\ [](IF stats.PagesProcessed = 0
          THEN stats.AvgLoadTime = 0 /\ stats.TotalSize = 0
          ELSE /\ stats.AvgLoadTime * stats.PagesProcessed <= stats.TotalSize
               /\ stats.TotalSize < (stats.AvgLoadTime + 1) * stats.PagesProcessed)
    /\ [][stats'.AvgLoadTime # stats.AvgLoadTime =>
            /\ stats'.PagesProcessed = stats.PagesProcessed + 1
            /\ stats'.PagesProcessed >= 1]_vars

\* the seed (3 bytes) and a (4 bytes) were processed: the average is 3
C30_Witness ==
    stats.PagesProcessed = 2 /\ stats.TotalSize = 7 /\ stats.AvgLoadTime = 3

\* the counters of a CrawlStats: every field but Duration
Counters(s) ==
    <<s.PagesProcessed, s.PagesSkipped, s.Errors, s.TotalSize, s.AvgLoadTime>>

\* C31: when Crawl has returned, no result sent on results is left to be
\* applied (none is in the channel, none is held by processSmartResults), and
\* from then on no step changes a counter of the stats that Crawl returned.
C31_StatsFinalAtReturn ==
    /\ [](returned.done => results = <<>> /\ agg_result = NoResult)
    /\ [][returned.done => Counters(stats') = Counters(stats)]_vars

\* where Crawl is before it has read ctx.Done(): the two statements ahead of
\* the loop, the select of the loop, the loop over a batch
BeforeDone == {"push initialURL", "AddToQueue", "select", "push"}

\* no row of the frontier is pending with a depth within maxDepth
NothingLeftWithinDepth ==
    \A i \in Selected(crawl_queue) : crawl_queue[i].depth > maxDepth

\* C33: Crawl returns only after ctx has been cancelled: as long as ctx is not
\* cancelled Crawl is ahead of or inside its polling loop and has not
\* returned, also when the frontier has no pending entry within maxDepth and
\* every worker is idle; the step that leaves the loop is the ctx.Done() case.
C33_ReturnsOnlyAfterCancel ==
    /\ [](~ctx_done => crawl_pc \in BeforeDone /\ ~returned.done)
    /\ [][(crawl_pc \in BeforeDone /\ crawl_pc' \notin BeforeDone) => ctx_done]_vars

\* the crawl has run dry and ctx is not cancelled: a batch was fetched, the
\* seed is completed, nothing is pending within maxDepth, the channels are
\* empty, every worker waits on urlQueue, and Crawl is at its select
C33_Witness ==
    /\ ~ctx_done /\ crawl_pc = "select" /\ refills > 0
    /\ crawl_queue # <<>> /\ NothingLeftWithinDepth
    /\ urlQueue = <<>> /\ results = <<>> /\ agg_pc = "range"
    /\ \A w \in Workers : w_pc[w] = "range"
    /\ stats.PagesProcessed > 0
    /\ ~returned.done

\* C34: in a run of Crawl that starts with table pages empty, SavePage writes
\* at most once for each URL (every write inserts a row, none updates one),
\* and between two results PagesProcessed is the number of rows of pages: no
\* URL is counted as processed twice.
C34_OneSavePerURL ==
    /\ pages_id_seq = Len(pages)
    /\ agg_pc = "range" => stats.PagesProcessed = Len(pages)

\* the row of u is pending and its depth is within maxDepth
PendingWithinDepth(u) ==
    \E i \in Selected(crawl_queue) :
        crawl_queue[i].url = u /\ crawl_queue[i].depth <= maxDepth

\* an entry for u is in the buffer of urlQueue
OnUrlQueue(u) == \E i \in 1..Len(urlQueue) : urlQueue[i].URL = u

\* C32: with ctx never cancelled, a frontier entry that is pending with a
\* depth within maxDepth is sent on urlQueue sooner or later (or stops being
\* pending), whatever rows of a greater depth and a higher priority the
\* frontier holds: the entries that the loop passes over for their depth do
\* not keep it from the entries that sort after them.
C32_DeepEntriesDoNotBlock ==
    \A u \in StoreURLs :
        PendingWithinDepth(u) ~> (OnUrlQueue(u) \/ ~PendingWithinDepth(u))

(***************************************************************************)
(* Claims about the duplicate detector.                                    *)
(***************************************************************************)
\* C1: of the calls of IsDuplicate made with one fingerprint, concurrent or
\* not, exactly one returns false: no fingerprint has two calls that
\* returned false.
C1_OneCallerSeesFalse ==
    \A h \in Hashes : dd_false[h] <= 1

\* the last call of caller p has returned
HasReturned(p) == dd_pc[p] = "idle" /\ dd_ret[p] # "none"

\* C14: for calls that do not overlap IsDuplicate is a test-and-set: a call
\* made when no call with its hash has returned, and with no such call in
\* progress during it, returns false and records the hash; a call started
\* after a call with its hash has returned returns true; no hash ever
\* leaves seenHashes.
C14_TestAndSet ==
    /\ [](\A p \in Callers :
            HasReturned(p) =>
                /\ dd_hash[p] \in seenHashes
                /\ dd_after[p] => dd_ret[p] = "true"
                /\ dd_alone[p] /\ ~dd_after[p] => dd_ret[p] = "false")
    /\ [][seenHashes \subseteq seenHashes']_vars

\* one caller got false for a hash, on its own, and the other got true for
\* it in a call started after that return
C14_Witness ==
    \E p, q \in Callers :
        /\ HasReturned(p) /\ dd_alone[p] /\ ~dd_after[p] /\ dd_ret[p] = "false"
        /\ HasReturned(q) /\ dd_after[q] /\ dd_ret[q] = "true"
        /\ dd_hash[p] = dd_hash[q]

\* where a caller holds the read lock it took
HoldsRLock == {"check", "RUnlock", "return true", "return false"}

\* the read locks held by the callers p, p + 1, ...
RECURSIVE ReadLocksHeld(_)
ReadLocksHeld(p) ==
    IF p > NumCallers THEN 0 ELSE dd_held[p] + ReadLocksHeld(p + 1)

\* C35: every call of IsDuplicate returns, however many calls run at once; a
\* call holds one read lock from its RLock to its RUnlock and none elsewhere,
\* the write lock from its Lock to its Unlock only, and never releases a lock
\* it does not hold; when no call is in progress the lock is held by no one.
C35_CallsReturnLockFree ==
    /\ \A p \in Callers : (dd_pc[p] # "idle") ~> (dd_pc[p] = "idle")
    /\ [](\A p \in Callers :
            /\ dd_held[p] = IF dd_pc[p] \in HoldsRLock THEN 1 ELSE 0
            /\ rw_writer = p <=> dd_pc[p] \in {"Lock wait", "insert", "Unlock"}
            /\ rw_writing /\ rw_writer = p <=> dd_pc[p] \in {"insert", "Unlock"})
    /\ [](rw_readers = ReadLocksHeld(1) /\ (rw_writing => rw_readers = 0))
    /\ []((\A p \in Callers : dd_pc[p] = "idle") =>
            rw_readers = 0 /\ rw_writer = 0 /\ ~rw_writing)

\* every caller has made all its calls and the last has returned; two calls
\* with one hash ran at once and both went through Lock and Unlock; the lock
\* is free
C35_Witness ==
    /\ \A p \in Callers : HasReturned(p) /\ dd_calls[p] = MaxCalls
    /\ \E h \in Hashes : dd_false[h] > 1
    /\ rw_readers = 0 /\ rw_writer = 0 /\ ~rw_writing

====
